---- MODULE Spec2Model ----
(***************************************************************************)
(* Model of the cleaning engine of src/src/cleaning/temp_files.rs:         *)
(* clean_temp_files_with_options, clean_directory_advanced, process_file,  *)
(* should_skip_file_advanced, matches_pattern,                             *)
(* remove_empty_directories_safe and the location registry.                *)
(*                                                                         *)
(* File names and patterns are sequences of one-character strings.  The    *)
(* file system is a function from node ids to node records; a directory    *)
(* listing returns the live children of a directory in id order.  The      *)
(* recursion of clean_directory_advanced and remove_empty_directories_safe *)
(* is an explicit call stack and every loop iteration is one step.         *)
(* The Windows build (cfg(windows)) of is_file_in_use_error is modelled.   *)
(* `verbose` only selects println! calls and is left out of the options.   *)
(***************************************************************************)
EXTENDS Integers, Sequences, FiniteSets, TLC

\* ------------------------------------------------------------------------
\* Characters and strings
\* ------------------------------------------------------------------------

UpperChars == <<"A","B","C","D","E","F","G","H","I","J","K","L","M",
                "N","O","P","Q","R","S","T","U","V","W","X","Y","Z">>

LowerChars == <<"a","b","c","d","e","f","g","h","i","j","k","l","m",
                "n","o","p","q","r","s","t","u","v","w","x","y","z">>

\* char::to_lowercase / to_ascii_lowercase on the ASCII alphabet
LowerChar(c) ==
    IF \E i \in 1..26 : UpperChars[i] = c
    THEN LowerChars[CHOOSE i \in 1..26 : UpperChars[i] = c]
    ELSE c

\* str::to_lowercase
ToLower(s) == [i \in 1..Len(s) |-> LowerChar(s[i])]

\* str::eq_ignore_ascii_case
EqIgnoreCase(a, b) == ToLower(a) = ToLower(b)

\* str::starts_with
StartsWith(s, p) == Len(p) <= Len(s) /\ SubSeq(s, 1, Len(p)) = p

\* str::ends_with
EndsWith(s, p) == Len(p) <= Len(s) /\ SubSeq(s, Len(s) - Len(p) + 1, Len(s)) = p

\* str::contains('*')
ContainsStar(p) == \E i \in 1..Len(p) : p[i] = "*"

\* number of parts pattern.split('*') yields
SplitCount(p) == Cardinality({i \in 1..Len(p) : p[i] = "*"}) + 1

FirstStar(p) == CHOOSE i \in 1..Len(p) : p[i] = "*" /\ \A j \in 1..(i-1) : p[j] # "*"

\* Path::extension: the text after the last dot of the file name; None when
\* there is no dot or the only dot is the leading one.  Encoded as a set
\* holding at most one string.
Extension(name) ==
    LET dots == {i \in 1..Len(name) : name[i] = "."}
    IN IF dots = {} THEN {}
       ELSE LET last == CHOOSE i \in dots : \A j \in dots : j <= i
            IN IF last = 1 THEN {} ELSE {SubSeq(name, last + 1, Len(name))}

\* ------------------------------------------------------------------------
\* matches_pattern
\* ------------------------------------------------------------------------

RECURSIVE MatchesPattern(_, _)
RECURSIVE WildLoop(_, _)
RECURSIVE WildTry(_, _)

\* the `while filename_chars.peek().is_some()` loop after a star: try the
\* rest of the pattern on every non-empty remainder of the file name
WildTry(f, p) ==
    IF f = <<>> THEN FALSE
    ELSE IF MatchesPattern(f, p) THEN TRUE
    ELSE WildTry(Tail(f), p)

\* the `while let Some(p_char) = pattern_chars.next()` loop
WildLoop(f, p) ==
    IF p = <<>> THEN f = <<>>
    ELSE IF Head(p) = "*"
         THEN IF Tail(p) = <<>> THEN TRUE ELSE WildTry(f, Tail(p))
         ELSE IF f = <<>> THEN FALSE
              ELSE IF Head(p) # Head(f) THEN FALSE
                   ELSE WildLoop(Tail(f), Tail(p))

\* variant: the one-star arm compares without to_lowercase
MatchesPattern_CaseSensitive(filename, pattern) ==
    IF ContainsStar(pattern)
    THEN IF SplitCount(pattern) = 2
         THEN LET k == FirstStar(pattern)
                  pre == SubSeq(pattern, 1, k - 1)
                  suf == SubSeq(pattern, k + 1, Len(pattern))
              IN StartsWith(filename, pre) /\ EndsWith(filename, suf)
         ELSE WildLoop(ToLower(filename), ToLower(pattern))
    ELSE EqIgnoreCase(filename, pattern)

MatchesPattern(filename, pattern) ==
    IF ContainsStar(pattern)
    THEN IF SplitCount(pattern) = 2
         THEN LET k == FirstStar(pattern)
                  pre == SubSeq(pattern, 1, k - 1)
                  suf == SubSeq(pattern, k + 1, Len(pattern))
              IN StartsWith(ToLower(filename), ToLower(pre))
                 /\ EndsWith(ToLower(filename), ToLower(suf))
         ELSE WildLoop(ToLower(filename), ToLower(pattern))
    ELSE EqIgnoreCase(filename, pattern)

\* ------------------------------------------------------------------------
\* should_skip_file_advanced
\* ------------------------------------------------------------------------

GenericProtected ==
    << <<"d","e","s","k","t","o","p",".","i","n","i">>,
       <<"t","h","u","m","b","s",".","d","b">>,
       <<"n","t","u","s","e","r",".","d","a","t">>,
       <<"i","c","o","n","c","a","c","h","e",".","d","b">>,
       <<"b","o","o","t","s","e","c","t",".","b","a","k">>,
       <<"p","a","g","e","f","i","l","e",".","s","y","s">> >>

ChromiumProtected ==
    << <<"i","n","d","e","x">>, <<"d","a","t","a","_","*">> >>

\* the `match location_name` table of protected names
ProtectedFiles(location_name) ==
    CASE location_name = "Windows Temp" ->
            << <<"d","e","s","k","t","o","p",".","i","n","i">>,
               <<"t","h","u","m","b","s",".","d","b">>,
               <<"*",".","l","o","g">> >>
      [] location_name = "Benutzer Temp" ->
            << <<"d","e","s","k","t","o","p",".","i","n","i">>,
               <<"s","o","m","e","_","a","p","p","_","c","o","n","f","i","g">> >>
      [] location_name = "Windows Prefetch" ->
            << <<"l","a","y","o","u","t",".","i","n","i">>,
               <<"p","f",".","t","x","t">> >>
      [] location_name = "Internet Explorer Cache" ->
            << <<"i","n","d","e","x",".","d","a","t">>,
               <<"*",".","d","a","t">> >>
      [] location_name = "Chrome Cache" -> ChromiumProtected
      [] location_name = "Firefox Cache" ->
            << <<"p","l","a","c","e","s",".","s","q","l","i","t","e">>,
               <<"c","o","o","k","i","e","s",".","s","q","l","i","t","e">>,
               <<"*",".","s","q","l","i","t","e","-","w","a","l">>,
               <<"*",".","s","q","l","i","t","e","-","s","h","m">> >>
      [] location_name = "Edge Cache" -> ChromiumProtected
      [] location_name = "Brave Cache" -> ChromiumProtected
      [] location_name = "Windows Miniaturansichten" ->
            << <<"t","h","u","m","b","c","a","c","h","e","_","*",".","d","b">>,
               <<"i","c","o","n","c","a","c","h","e","_","*",".","d","b">> >>
      [] location_name = "Windows Update Cache" ->
            << <<"*",".","c","a","b">>, <<"*",".","m","s","u">> >>
      [] OTHER -> GenericProtected

AnyMatch(file_name, patterns) ==
    \E i \in 1..Len(patterns) : MatchesPattern(file_name, patterns[i])

\* variant: the built-in protected names are not consulted
ShouldSkipFileAdvanced_NoProtected(file_name, location_name, opts) ==
    \/ (file_name # <<>> /\ Head(file_name) = ".")
    \/ AnyMatch(file_name, opts.excluded_patterns)

ShouldSkipFileAdvanced(file_name, location_name, opts) ==
    \/ (file_name # <<>> /\ Head(file_name) = ".")
    \/ AnyMatch(file_name, opts.excluded_patterns)
    \/ AnyMatch(file_name, ProtectedFiles(location_name))

\* ------------------------------------------------------------------------
\* Bounds of the model
\* ------------------------------------------------------------------------

\* largest value of options.max_files that is tried (0 = unlimited)
MaxFilesOpt == 2
\* how many symbolic links one path may traverse before the operating
\* system refuses to resolve it (ELOOP / path length limit)
MaxLinkHops == 2
\* how many times clean_temp_files_with_options is called in one behaviour
MaxRuns == 2
\* width in bits of the unsigned integers of the model: u64 is scaled down
\* so that the overflow of `days * 24 * 60 * 60` happens at day counts the
\* model checker can enumerate (2^WordBits seconds are about 12 days)
WordBits == 20

\* ------------------------------------------------------------------------
\* The file system
\* ------------------------------------------------------------------------

\* node ids; within a directory fs::read_dir yields the entries in id order
UT == 1      \* %TEMP% = %USERPROFILE%\AppData\Local\Temp
F1 == 2      \*   some_app_config
S1 == 3      \*   a subdirectory
F2 == 4      \*   a.tmp
LNK == 5     \*   a symbolic link to a directory (absent in the base tree)
S2 == 6      \*   a second subdirectory
F4 == 7      \*     file in S1
TD == 8      \*     subdirectory of S1
F5 == 9      \*       file in TD
F6 == 10     \*     file in S2
IC == 11     \* %USERPROFILE%\AppData\Local\Microsoft\Windows\INetCache
G1 == 12     \*   a.tmp
G2 == 13     \*   b.cache
G3 == 14     \*   desktop.ini
CC == 15     \* %LOCALAPPDATA%\Google\Chrome\User Data\Default\Cache
F8 == 16     \*   file in CC
XD == 17     \* a directory outside every location
FX == 18     \*   file in XD
XE == 19     \*   empty subdirectory of XD
PL == 20     \* the relative path "%LOCALAPPDATA%\Google\..\Default\Cache"
FP == 21     \*   file in PL

Nodes == 1..21

\* a path that names nothing in the modelled world
NoPath == 0

SecsPerDay == 24 * 60 * 60

N_a_tmp == <<"a",".","t","m","p">>
N_b_cache == <<"b",".","c","a","c","h","e">>
N_desktop_ini == <<"d","e","s","k","t","o","p",".","i","n","i">>
N_hidden == <<".","h","i","d">>
N_some_app_config == <<"s","o","m","e","_","a","p","p","_","c","o","n","f","i","g">>
N_DESKTOP_INI == <<"D","E","S","K","T","O","P",".","I","N","I">>
N_readme == <<"r","e","a","d","m","e">>
N_data_1 == <<"d","a","t","a","_","1">>
N_f_0001 == <<"f","_","0","0","0","1">>

\* a regular file: age = now - modified in seconds (negative: modified lies
\* in the future), del = what fs::remove_file answers, meta = whether the
\* fs::metadata call of process_file succeeds
FileNode(p, nm, sz, ag) ==
    [kind |-> "file", parent |-> p, name |-> nm, size |-> sz, age |-> ag,
     del |-> "ok", meta |-> TRUE, list |-> TRUE, target |-> NoPath]

\* a directory: list = whether fs::read_dir succeeds on it, del = what
\* fs::remove_dir answers once it is empty
DirNode(p) ==
    [kind |-> "dir", parent |-> p, name |-> <<"d">>, size |-> 0, age |-> 0,
     del |-> "ok", meta |-> TRUE, list |-> TRUE, target |-> NoPath]

AbsentNode(p) ==
    [kind |-> "none", parent |-> p, name |-> <<"l">>, size |-> 0, age |-> 0,
     del |-> "ok", meta |-> TRUE, list |-> TRUE, target |-> NoPath]

BaseFs ==
    [n \in Nodes |->
        CASE n = UT  -> DirNode(NoPath)
          [] n = F1  -> FileNode(UT, N_some_app_config, 30, 2 * SecsPerDay)
          [] n = S1  -> DirNode(UT)
          [] n = F2  -> FileNode(UT, N_a_tmp, 10, 2 * SecsPerDay)
          [] n = LNK -> AbsentNode(UT)
          [] n = S2  -> DirNode(UT)
          [] n = F4  -> FileNode(S1, N_a_tmp, 10, 2 * SecsPerDay)
          [] n = TD  -> DirNode(S1)
          [] n = F5  -> FileNode(TD, N_a_tmp, 10, 2 * SecsPerDay)
          [] n = F6  -> FileNode(S2, N_a_tmp, 20, 2 * SecsPerDay)
          [] n = IC  -> DirNode(NoPath)
          [] n = G1  -> FileNode(IC, N_a_tmp, 10, 2 * SecsPerDay)
          [] n = G2  -> FileNode(IC, N_b_cache, 10, 0)
          [] n = G3  -> FileNode(IC, N_desktop_ini, 10, 2 * SecsPerDay)
          [] n = CC  -> DirNode(NoPath)
          [] n = F8  -> FileNode(CC, N_f_0001, 10, 2 * SecsPerDay)
          [] n = XD  -> DirNode(NoPath)
          [] n = FX  -> FileNode(XD, N_a_tmp, 10, 2 * SecsPerDay)
          [] n = XE  -> DirNode(XD)
          [] n = PL  -> AbsentNode(NoPath)
          [] n = FP  -> FileNode(PL, N_f_0001, 10, 2 * SecsPerDay)]

\* the node a path names once a final symbolic link is followed
Resolve(f, n) == IF f[n].kind = "symlink" THEN f[n].target ELSE n

\* Path::exists
PathExists(f, n) == n # NoPath /\ f[Resolve(f, n)].kind \in {"file", "dir"}

\* Path::is_file
IsFile(f, n) == n # NoPath /\ f[n].kind = "file"

\* Path::is_dir: follows a symbolic link, unless the path already runs
\* through `hops` = MaxLinkHops links
IsDir(f, n, hops) ==
    /\ n # NoPath
    /\ \/ f[n].kind = "dir"
       \/ f[n].kind = "symlink" /\ hops < MaxLinkHops /\ f[f[n].target].kind = "dir"

\* fs::symlink_metadata(..).file_type().is_symlink()
IsSymlink(f, n) == f[n].kind = "symlink"

RECURSIVE SortedSeq(_)
SortedSeq(S) ==
    IF S = {} THEN <<>>
    ELSE LET m == CHOOSE x \in S : \A y \in S : x <= y
         IN <<m>> \o SortedSeq(S \ {m})

\* whether fs::read_dir(dir) is Ok
ReadDirOk(f, d) ==
    LET r == Resolve(f, d) IN r # NoPath /\ f[r].kind = "dir" /\ f[r].list

\* the entries fs::read_dir(dir) yields; an entry of kind "bad" is one whose
\* directory record cannot be read (the iterator yields Err for it)
Entries(f, d) ==
    SortedSeq({n \in Nodes : f[n].parent = Resolve(f, d) /\ f[n].kind # "none"})

\* is_directory_empty(dir).unwrap_or(false)
IsDirectoryEmpty(f, d) == ReadDirOk(f, d) /\ Entries(f, d) = <<>>

\* ------------------------------------------------------------------------
\* Options and summary
\* ------------------------------------------------------------------------

\* CleaningOptions::default()
DefaultOptions ==
    [min_file_age_days |-> 1,
     recursive         |-> TRUE,
     remove_empty_dirs |-> TRUE,
     target_extensions |-> [some |-> FALSE, exts |-> <<>>],
     max_files         |-> 0,
     max_file_size     |-> 0,
     min_file_size     |-> 0,
     excluded_patterns |-> <<>>,
     dry_run           |-> FALSE]

\* CleaningSummary::new(); processing_time is wall-clock time and left out
NewSummary ==
    [deleted_files      |-> 0,
     total_size         |-> 0,
     errors             |-> <<>>,
     skipped_files      |-> 0,
     cleaned_locations  |-> <<>>,
     empty_dirs_removed |-> 0]

\* CleaningSummary::add_error
AddError(s, e) == [s EXCEPT !.errors = Append(@, e)]

\* CleaningSummary::add_location_data: HashMap::insert, replacing an entry
\* of the same name
AddLocationData(s, location_name, files, size, errors, skipped) ==
    LET m == s.cleaned_locations
        v == [location_name |-> location_name, deleted_files |-> files,
              total_size |-> size, errors |-> errors, skipped_files |-> skipped]
    IN [s EXCEPT !.cleaned_locations =
            [k \in (DOMAIN m) \cup {location_name} |->
                IF k = location_name THEN v ELSE m[k]]]

IoError(p, m) == [kind |-> "IoError", path |-> p, msg |-> m]
FileInUse(p) == [kind |-> "FileInUse", path |-> p, msg |-> ""]
PermissionDenied(p) == [kind |-> "PermissionDenied", path |-> p, msg |-> ""]

\* ------------------------------------------------------------------------
\* process_file
\* ------------------------------------------------------------------------

\* what a failing fs::remove_file / fs::remove_dir reports
DelErrors == {"sharing", "lock", "perm", "other"}

\* io::Error::kind of a delete error
ErrorKind(e) == IF e = "perm" THEN "PermissionDenied" ELSE "Other"

\* variant: only the portable test, the raw Windows codes are not looked at
IsFileInUseError_KindOnly(e) == ErrorKind(e) = "PermissionDenied"

\* is_file_in_use_error (cfg(windows)): raw code ERROR_SHARING_VIOLATION or
\* ERROR_LOCK_VIOLATION, else kind() == PermissionDenied
IsFileInUseError(e) ==
    IF e = "sharing" THEN TRUE
    ELSE IF e = "lock" THEN TRUE
    ELSE ErrorKind(e) = "PermissionDenied"

\* the match on the Err of fs::remove_file in process_file
ClassifyDeleteError(p, e) ==
    IF IsFileInUseError(e) THEN FileInUse(p)
    ELSE IF ErrorKind(e) = "PermissionDenied" THEN PermissionDenied(p)
    ELSE IoError(p, e)

\* u64 multiplication as a build without overflow checks performs it: the
\* product modulo 2^WordBits
WrappingMul(a, b) == (a * b) % (2 ^ WordBits)

\* `days * 24 * 60 * 60`, multiplied from left to right
ThresholdSecs(days) == WrappingMul(WrappingMul(WrappingMul(days, 24), 60), 60)

\* one of the three multiplications leaves the range of u64: a build with
\* overflow checks panics there
ThresholdOverflows(days) ==
    \/ days * 24 >= 2 ^ WordBits
    \/ WrappingMul(days, 24) * 60 >= 2 ^ WordBits
    \/ WrappingMul(WrappingMul(days, 24), 60) * 60 >= 2 ^ WordBits

\* variant: `>` in place of `>=`
IsFileOlderThanDays_Strict(node, days) ==
    IF node.age < 0 THEN FALSE
    ELSE node.age > ThresholdSecs(days)

\* is_file_older_than_days(..).unwrap_or(false): now.duration_since(modified)
\* is Err when modified lies in the future
IsFileOlderThanDays(node, days) ==
    IF node.age < 0 THEN FALSE
    ELSE node.age >= ThresholdSecs(days)

\* the target_extensions test of process_file
ExtensionWanted(name, opts) ==
    IF opts.target_extensions.some
    THEN /\ Extension(name) # {}
         /\ \E i \in 1..Len(opts.target_extensions.exts) :
                \E ext \in Extension(name) :
                    EqIgnoreCase(opts.target_extensions.exts[i], ext)
    ELSE TRUE

\* the filters of process_file up to the delete attempt: "skip", "metadata"
\* (fs::metadata failed) or "pass"
FilterFile(node, location_name, opts) ==
    IF ShouldSkipFileAdvanced(node.name, location_name, opts) THEN "skip"
    ELSE IF ~ExtensionWanted(node.name, opts) THEN "skip"
    ELSE IF ~node.meta THEN "metadata"
    ELSE IF opts.max_file_size > 0 /\ node.size > opts.max_file_size THEN "skip"
    ELSE IF opts.min_file_size > 0 /\ node.size < opts.min_file_size THEN "skip"
    ELSE IF ~IsFileOlderThanDays(node, opts.min_file_age_days) THEN "skip"
    ELSE "pass"

\* whether process_file calls fs::remove_file
TouchesDisk(opts) == ~opts.dry_run

\* variant: the file is counted before fs::remove_file is called, and a
\* failed removal is then recorded and counted as skipped as well
ProcessFile_CountBeforeDelete(f, s, n, location_name, opts) ==
    LET r == FilterFile(f[n], location_name, opts)
        counted == [s EXCEPT !.deleted_files = @ + 1,
                             !.total_size = @ + f[n].size]
    IN CASE r = "skip" ->
                [summary |-> [s EXCEPT !.skipped_files = @ + 1], fs |-> f]
         [] r = "metadata" ->
                [summary |-> AddError(s, IoError(n, "metadata")), fs |-> f]
         [] OTHER ->
                IF ~TouchesDisk(opts)
                THEN [summary |-> counted, fs |-> f]
                ELSE IF f[n].del = "ok"
                     THEN [summary |-> counted,
                           fs |-> [f EXCEPT ![n].kind = "none"]]
                     ELSE [summary |-> [AddError(counted, ClassifyDeleteError(n, f[n].del))
                                           EXCEPT !.skipped_files = @ + 1],
                           fs |-> f]

\* process_file: the summary and the file system after the call
ProcessFile(f, s, n, location_name, opts) ==
    LET r == FilterFile(f[n], location_name, opts)
        counted == [s EXCEPT !.deleted_files = @ + 1,
                             !.total_size = @ + f[n].size]
    IN CASE r = "skip" ->
                [summary |-> [s EXCEPT !.skipped_files = @ + 1], fs |-> f]
         [] r = "metadata" ->
                [summary |-> AddError(s, IoError(n, "metadata")), fs |-> f]
         [] OTHER ->
                IF ~TouchesDisk(opts)
                THEN [summary |-> counted, fs |-> f]
                ELSE IF f[n].del = "ok"
                     THEN [summary |-> counted,
                           fs |-> [f EXCEPT ![n].kind = "none"]]
                     ELSE [summary |-> [AddError(s, ClassifyDeleteError(n, f[n].del))
                                           EXCEPT !.skipped_files = @ + 1],
                           fs |-> f]

\* ------------------------------------------------------------------------
\* Location registry
\* ------------------------------------------------------------------------

EnvVars == {"TEMP", "USERPROFILE", "LOCALAPPDATA", "APPDATA"}

\* The registry entries whose directories exist in the modelled world.  An
\* entry none of whose paths exists is a no-op (path.exists() is false, all
\* deltas are 0, nothing is inserted) and is left out.
FixedLocations == {"Benutzer Temp", "System Temp"}

\* the environment variable a fixed location is built from
LocationVar(name) ==
    CASE name = "Benutzer Temp" -> "TEMP"
      [] name = "System Temp" -> "USERPROFILE"

\* get_user_temp_dir, get_system_temp_dirs: the paths of a location (Temp,
\* INetCache, WebCache, Recent); %TEMP% has its usual value
\* %USERPROFILE%\AppData\Local\Temp
LocationPaths(name) ==
    CASE name = "Benutzer Temp" -> <<UT>>
      [] name = "System Temp" -> <<UT, IC, NoPath, NoPath>>

\* get_all_temp_locations: the keys of the HashMap
GetAllTempLocations(e) == {name \in FixedLocations : LocationVar(name) \in e}

\* get_browser_cache_info, in Vec order, restricted like FixedLocations
BrowserNames == <<"Chrome Cache", "Opera Cache">>

BrowserVar(name) ==
    CASE name = "Chrome Cache" -> "LOCALAPPDATA"
      [] name = "Opera Cache" -> "APPDATA"

\* expand_environment_path joined with cache_subdirs: `if let Ok(..) =
\* env::var(..)` skips the replace of an unset variable, so the placeholder
\* stays in the path and Some(path) is returned: a relative path whose first
\* component is a directory named like the placeholder (absent in the base
\* tree)
BrowserCachePaths(name, e) ==
    IF BrowserVar(name) \notin e
    THEN CASE name = "Chrome Cache" -> <<PL, NoPath>>
           [] name = "Opera Cache" -> <<NoPath>>
    ELSE CASE name = "Chrome Cache" -> <<CC, NoPath>>
           [] name = "Opera Cache" -> <<NoPath>>

\* ------------------------------------------------------------------------
\* State
\* ------------------------------------------------------------------------

VARIABLES
    fs,        \* the file system: node id -> node record
    env,       \* the environment variables that are set
    options,   \* the CleaningOptions of the current call
    summary,   \* the CleaningSummary under construction
    pc,        \* "start", "locations", "browsers", "done"
    todo,      \* fixed locations the `for` over the HashMap has not yielded yet
    btodo,     \* browsers the `for` over the Vec has not reached yet
    cur,       \* the location or browser being processed
    stack,     \* call stack of clean_directory_advanced / remove_empty_directories_safe
    ret,       \* value just returned by the callee: "none", "ok" or an error text
    result,    \* what clean_temp_files_with_options returned: "none", "Ok", "Err"
    run,       \* number of the current call of clean_temp_files_with_options
    prev,      \* the summary the previous call returned
    fs0,       \* history: the file system when the current call started
    entry,     \* history: file system and summary at the last top-level
               \* clean_directory_advanced call
    called,    \* history: directories clean_directory_advanced and files
               \* process_file were called on since the last top-level call
    scanned,   \* history: directories whose entries were listed by
               \* clean_directory_advanced since the last top-level call
    call,      \* the last call of one of the free functions (matches_pattern,
               \* is_file_older_than_days, format_bytes, process_file) made
               \* on its own, with its arguments and what it returned
    monitoring_active,  \* RustyCleanApp::monitoring_active
    system_status,      \* RustyCleanApp::system_status: NoStatus or a status
    fetching,  \* the statuses of the Command::perform futures that have not
               \* delivered their SystemStatusUpdated message yet
    ticks      \* UpdateSystemStatus messages of the subscription that
               \* update has not handled yet

vars == <<fs, env, options, summary, pc, todo, btodo, cur, stack, ret, result,
          run, prev, fs0, entry, called, scanned, call,
          monitoring_active, system_status, fetching, ticks>>

\* the state of RustyCleanApp and of its messages in flight
app == <<monitoring_active, system_status, fetching, ticks>>

\* Option::None of system_status
NoStatus == [some |-> FALSE]

\* RustyCleanApp::new: nothing is shown, monitoring is off, no message is
\* under way
NewApp ==
    /\ monitoring_active = FALSE
    /\ system_status = NoStatus
    /\ fetching = <<>>
    /\ ticks = 0

\* no free function has been called on its own
NoCall == [fn |-> "none"]

hist == <<fs0, entry, called, scanned>>

NoLoc == [name |-> "", paths |-> <<>>, path |-> NoPath,
          files |-> 0, size |-> 0, errors |-> 0, skipped |-> 0]

\* variant: the errors of a location are counted from the start of the run
BeginLocation_ErrorsFromZero(name, paths, s) ==
    [name |-> name, paths |-> paths, path |-> NoPath,
     files |-> s.deleted_files, size |-> s.total_size,
     errors |-> 0, skipped |-> s.skipped_files]

\* the four location_*_before locals
BeginLocation(name, paths, s) ==
    [name |-> name, paths |-> paths, path |-> NoPath,
     files |-> s.deleted_files, size |-> s.total_size,
     errors |-> Len(s.errors), skipped |-> s.skipped_files]

CleanFrame(d, es) ==
    [fn |-> "clean", dir |-> d, entries |-> es, dirs |-> <<>>, phase |-> "scan"]

RmFrame(d, es) ==
    [fn |-> "rmempty", dir |-> d, entries |-> es, dirs |-> <<>>, phase |-> "scan"]

Top == stack[Len(stack)]
Pop == SubSeq(stack, 1, Len(stack) - 1)
SetTop(fr) == [stack EXCEPT ![Len(stack)] = fr]

\* symbolic links on the path of the innermost call
Hops == Cardinality({i \in 1..Len(stack) : fs[stack[i].dir].kind = "symlink"})

\* ------------------------------------------------------------------------
\* Initial states: the base configuration and every configuration that
\* differs from it in one or two items
\* ------------------------------------------------------------------------

BaseConfig == [fs |-> BaseFs, options |-> DefaultOptions, env |-> EnvVars]

NodeDeviation(r, k) ==
    CASE k = 1  -> [r EXCEPT !.kind = "none"]
      [] k = 2  -> [r EXCEPT !.name = N_hidden]
      [] k = 3  -> [r EXCEPT !.name = N_DESKTOP_INI]
      [] k = 4  -> [r EXCEPT !.name = N_readme]
      [] k = 5  -> [r EXCEPT !.age = 0]
      [] k = 6  -> [r EXCEPT !.age = 0 - SecsPerDay]
      [] k = 7  -> [r EXCEPT !.size = 20]
      [] k = 8  -> [r EXCEPT !.del = "sharing"]
      [] k = 9  -> [r EXCEPT !.del = "lock"]
      [] k = 10 -> [r EXCEPT !.del = "perm"]
      [] k = 11 -> [r EXCEPT !.del = "other"]
      [] k = 12 -> [r EXCEPT !.meta = FALSE]
      [] k = 13 -> [r EXCEPT !.list = FALSE]
      [] k = 14 -> [r EXCEPT !.kind = "bad"]
      [] k = 15 -> [r EXCEPT !.kind = "symlink", !.target = XD]
      [] k = 16 -> [r EXCEPT !.kind = "symlink", !.target = UT]
      [] k = 17 -> [r EXCEPT !.kind = "dir"]

OptionDeviation(o, k) ==
    CASE k = 1 -> [o EXCEPT !.dry_run = TRUE]
      [] k = 2 -> [o EXCEPT !.recursive = FALSE]
      [] k = 3 -> [o EXCEPT !.remove_empty_dirs = FALSE]
      [] k = 4 -> [o EXCEPT !.min_file_age_days = 0]
      [] k = 5 -> [o EXCEPT !.target_extensions =
                        [some |-> TRUE, exts |-> << <<"T","M","P">> >>]]
      [] k = 6 -> [o EXCEPT !.max_file_size = 15]
      [] k = 7 -> [o EXCEPT !.min_file_size = 15]
      [] k = 8 -> [o EXCEPT !.excluded_patterns = << <<"*",".","t","m","p">> >>]
      [] OTHER -> [o EXCEPT !.max_files = k - 8]

EnvDeviation(e, k) ==
    CASE k = 1 -> e \ {"TEMP"}
      [] k = 2 -> e \ {"USERPROFILE"}
      [] k = 3 -> e \ {"LOCALAPPDATA"}

Deviations ==
    {<<"-", 0, 0>>}
    \cup {<<"n", F2, k>> : k \in 1..12}
    \cup {<<"n", F6, k>> : k \in {1, 8, 11}}
    \cup {<<"n", n, 1>> : n \in {F1, F4, F5, F8, FX}}
    \cup {<<"n", n, k>> : n \in {S1, TD, S2}, k \in {1, 11, 13}}
    \cup {<<"n", IC, 13>>, <<"n", CC, 1>>, <<"n", UT, 13>>, <<"n", UT, 1>>}
    \cup {<<"n", XE, 1>>, <<"n", XE, 11>>}
    \cup {<<"n", F5, 14>>, <<"n", G2, 14>>}
    \cup {<<"n", LNK, 11>>, <<"n", LNK, 15>>, <<"n", LNK, 16>>}
    \cup {<<"n", PL, 17>>}
    \cup {<<"o", 0, k>> : k \in 1..(8 + MaxFilesOpt)}
    \cup {<<"e", 0, k>> : k \in 1..3}

Deviate(c, d) ==
    CASE d[1] = "n" -> [c EXCEPT !.fs[d[2]] = NodeDeviation(@, d[3])]
      [] d[1] = "o" -> [c EXCEPT !.options = OptionDeviation(@, d[3])]
      [] d[1] = "e" -> [c EXCEPT !.env = EnvDeviation(@, d[3])]
      [] OTHER -> c

RECURSIVE Attached(_, _)
\* every directory on the way from the root down to n exists
Attached(f, n) ==
    LET p == f[n].parent
    IN p = NoPath \/ (f[p].kind = "dir" /\ Attached(f, p))

\* a directory that is absent has no content
Prune(c) ==
    [c EXCEPT !.fs = [n \in Nodes |->
                        IF Attached(c.fs, n) THEN c.fs[n]
                        ELSE [c.fs[n] EXCEPT !.kind = "none"]]]

Configs ==
    {Prune(Deviate(Deviate(BaseConfig, d1), d2)) :
        d1 \in Deviations, d2 \in Deviations}

Init ==
    /\ \E c \in Configs :
          /\ fs = c.fs
          /\ options = c.options
          /\ env = c.env
          /\ fs0 = c.fs
          /\ entry = [fs |-> c.fs, summary |-> NewSummary]
    /\ summary = NewSummary
    /\ pc = "start"
    /\ todo = {}
    /\ btodo = <<>>
    /\ cur = NoLoc
    /\ stack = <<>>
    /\ ret = "none"
    /\ result = "none"
    /\ run = 1
    /\ prev = NewSummary
    /\ called = {}
    /\ scanned = {}
    /\ call = NoCall
    /\ NewApp

\* ------------------------------------------------------------------------
\* clean_directory_advanced
\* ------------------------------------------------------------------------

\* variant: `>` in place of `>=`
LimitReached_Late(s, o) == o.max_files > 0 /\ s.deleted_files > o.max_files

\* the max_files test
LimitReached(s, o) == o.max_files > 0 /\ s.deleted_files >= o.max_files

\* the head of clean_directory_advanced up to fs::read_dir: the value it
\* returns at once, or the frame of the call that goes on
CleanCall(f, s, o, dir) ==
    IF ~(PathExists(f, dir) /\ IsDir(f, dir, 0))
    THEN [ret |-> "not_a_directory", push |-> <<>>]
    ELSE IF LimitReached(s, o)
         THEN [ret |-> "ok", push |-> <<>>]
         ELSE IF ~ReadDirOk(f, dir)
              THEN [ret |-> "read_dir", push |-> <<>>]
              ELSE [ret |-> "none", push |-> <<CleanFrame(dir, Entries(f, dir))>>]

\* the head of remove_empty_directories_safe: a failing fs::read_dir is Ok(())
RmCall(f, dir) ==
    IF ~ReadDirOk(f, dir)
    THEN [ret |-> "ok", push |-> <<>>]
    ELSE [ret |-> "none", push |-> <<RmFrame(dir, Entries(f, dir))>>]

\* what the scan loop does with a subdirectory entry: "push" it onto
\* directories_to_process or "skip" it as a symbolic link
SubdirAction(f, e) == IF ~IsSymlink(f, e) THEN "push" ELSE "skip"

\* one iteration of `for entry in entries` of clean_directory_advanced
ScanEntry ==
    /\ stack # <<>> /\ ret = "none"
    /\ Top.fn = "clean" /\ Top.phase = "scan" /\ Top.entries # <<>>
    /\ LET fr == Top
           e == Head(fr.entries)
           rest == Tail(fr.entries)
       IN IF fs[e].kind = "bad"
          THEN /\ summary' = AddError(summary, IoError(fr.dir, "entry"))
               /\ stack' = SetTop([fr EXCEPT !.entries = rest])
               /\ fs' = fs
          ELSE IF LimitReached(summary, options)
          THEN /\ stack' = SetTop([fr EXCEPT !.entries = <<>>])
               /\ UNCHANGED <<summary, fs>>
          ELSE IF IsFile(fs, e)
          THEN LET r == ProcessFile(fs, summary, e, cur.name, options)
               IN /\ summary' = r.summary
                  /\ fs' = r.fs
                  /\ stack' = SetTop([fr EXCEPT !.entries = rest])
          ELSE IF IsDir(fs, e, 0) /\ options.recursive
          THEN IF SubdirAction(fs, e) = "push"
               THEN /\ stack' = SetTop([fr EXCEPT !.entries = rest,
                                                  !.dirs = Append(@, e)])
                    /\ UNCHANGED <<summary, fs>>
               ELSE /\ summary' = [summary EXCEPT !.skipped_files = @ + 1]
                    /\ stack' = SetTop([fr EXCEPT !.entries = rest])
                    /\ fs' = fs
          ELSE /\ stack' = SetTop([fr EXCEPT !.entries = rest])
               /\ UNCHANGED <<summary, fs>>
    /\ called' = IF fs[Head(Top.entries)].kind # "bad"
                    /\ ~LimitReached(summary, options)
                    /\ IsFile(fs, Head(Top.entries))
                 THEN called \cup {Head(Top.entries)}
                 ELSE called
    /\ UNCHANGED <<app, env, call, options, pc, todo, btodo, cur, ret, result, run, prev,
                   fs0, entry, scanned>>

\* variant: a queued subdirectory is entered while entries of the current
\* directory are still to be scanned
RecurseSubdir_BeforeFiles ==
    /\ stack # <<>> /\ ret = "none"
    /\ Top.fn = "clean" /\ Top.phase = "scan"
    /\ Top.dirs # <<>>
    /\ LET fr == Top
           d == Head(fr.dirs)
           c == CleanCall(fs, summary, options, d)
       IN /\ stack' = SetTop([fr EXCEPT !.dirs = Tail(@)]) \o c.push
          /\ ret' = c.ret
          /\ called' = called \cup {d}
          /\ scanned' = IF c.push # <<>> THEN scanned \cup {d} ELSE scanned
    /\ UNCHANGED <<app, fs, env, call, options, summary, pc, todo, btodo, cur, result,
                   run, prev, fs0, entry>>

\* one iteration of `for dir_path in directories_to_process`: the call
RecurseSubdir ==
    /\ stack # <<>> /\ ret = "none"
    /\ Top.fn = "clean" /\ Top.phase = "scan"
    /\ Top.entries = <<>> /\ Top.dirs # <<>>
    /\ LET fr == Top
           d == Head(fr.dirs)
           c == CleanCall(fs, summary, options, d)
       IN /\ stack' = SetTop([fr EXCEPT !.dirs = Tail(@)]) \o c.push
          /\ ret' = c.ret
          /\ called' = called \cup {d}
          /\ scanned' = IF c.push # <<>> THEN scanned \cup {d} ELSE scanned
    /\ UNCHANGED <<app, fs, env, call, options, summary, pc, todo, btodo, cur, result,
                   run, prev, fs0, entry>>

\* what the caller does with an Err of the recursive call: the `?` operator
\* returns it at once ("propagate")
OnSubdirError == "propagate"

\* the recursive clean_directory_advanced call has returned
SubdirReturned ==
    /\ stack # <<>> /\ ret # "none"
    /\ Top.fn = "clean" /\ Top.phase = "scan"
    /\ IF ret = "ok" \/ OnSubdirError = "continue"
       THEN stack' = stack /\ ret' = "none"
       ELSE stack' = Pop /\ ret' = ret
    /\ UNCHANGED <<app, fs, env, call, options, summary, pc, todo, btodo, cur, result,
                   run, prev, hist>>

\* `if options.remove_empty_dirs { remove_empty_directories_safe(dir, ..)? }`
\* and the final Ok(()) when the option is off
StartEmptyPass ==
    /\ stack # <<>> /\ ret = "none"
    /\ Top.fn = "clean" /\ Top.phase = "scan"
    /\ Top.entries = <<>> /\ Top.dirs = <<>>
    /\ IF options.remove_empty_dirs
       THEN LET c == RmCall(fs, Top.dir)
            IN /\ stack' = SetTop([Top EXCEPT !.phase = "empty"]) \o c.push
               /\ ret' = c.ret
       ELSE /\ stack' = Pop
            /\ ret' = "ok"
    /\ UNCHANGED <<app, fs, env, call, options, summary, pc, todo, btodo, cur, result,
                   run, prev, hist>>

\* variant: the directory of the call is removed as well when the pass has
\* left it empty
EmptyPassReturned_RemovesDir ==
    /\ stack # <<>> /\ ret # "none"
    /\ Top.fn = "clean" /\ Top.phase = "empty"
    /\ stack' = Pop
    /\ ret' = ret
    /\ fs' = IF ret = "ok" /\ TouchesDisk(options) /\ IsDirectoryEmpty(fs, Top.dir)
             THEN [fs EXCEPT ![Top.dir].kind = "none"]
             ELSE fs
    /\ UNCHANGED <<app, env, call, options, summary, pc, todo, btodo, cur, result,
                   run, prev, hist>>

\* remove_empty_directories_safe has returned to clean_directory_advanced,
\* which returns Ok(()) or, through `?`, the error
EmptyPassReturned ==
    /\ stack # <<>> /\ ret # "none"
    /\ Top.fn = "clean" /\ Top.phase = "empty"
    /\ stack' = Pop
    /\ ret' = ret
    /\ UNCHANGED <<app, fs, env, call, options, summary, pc, todo, btodo, cur, result,
                   run, prev, hist>>

\* ------------------------------------------------------------------------
\* remove_empty_directories_safe
\* ------------------------------------------------------------------------

\* whether the pass descends into entry e: path.is_dir()
RmDescends(f, e, hops) == IsDir(f, e, hops)

\* one iteration of `for entry in entries` up to the recursive call
RmEntry ==
    /\ stack # <<>> /\ ret = "none"
    /\ Top.fn = "rmempty" /\ Top.phase = "scan" /\ Top.entries # <<>>
    /\ LET fr == Top
           e == Head(fr.entries)
       IN IF fs[e].kind = "bad"
          THEN stack' = Pop /\ ret' = "entry"
          ELSE IF RmDescends(fs, e, Hops)
          THEN LET c == RmCall(fs, e)
               IN /\ stack' = SetTop([fr EXCEPT !.phase = "wait"]) \o c.push
                  /\ ret' = c.ret
          ELSE /\ stack' = SetTop([fr EXCEPT !.entries = Tail(@)])
               /\ ret' = "none"
    /\ UNCHANGED <<app, fs, env, call, options, summary, pc, todo, btodo, cur, result,
                   run, prev, hist>>

\* the rest of the iteration after the recursive call: the emptiness test
\* and the removal
RmAfterChild ==
    /\ stack # <<>> /\ ret # "none"
    /\ Top.fn = "rmempty" /\ Top.phase = "wait"
    /\ LET fr == Top
           e == Head(fr.entries)
           next == SetTop([fr EXCEPT !.entries = Tail(@), !.phase = "scan"])
           counted == [summary EXCEPT !.empty_dirs_removed = @ + 1]
       IN IF ret # "ok"
          THEN stack' = Pop /\ ret' = ret /\ UNCHANGED <<fs, summary>>
          ELSE /\ stack' = next
               /\ ret' = "none"
               /\ IF ~IsDirectoryEmpty(fs, e)
                  THEN UNCHANGED <<fs, summary>>
                  ELSE IF ~TouchesDisk(options)
                  THEN summary' = counted /\ fs' = fs
                  ELSE IF fs[e].del = "ok"
                  THEN /\ fs' = [fs EXCEPT ![e].kind = "none"]
                       /\ summary' = counted
                  ELSE /\ summary' = AddError(summary, IoError(e, fs[e].del))
                       /\ fs' = fs
    /\ UNCHANGED <<app, env, call, options, pc, todo, btodo, cur, result, run, prev, hist>>

\* the loop is over: Ok(())
RmDone ==
    /\ stack # <<>> /\ ret = "none"
    /\ Top.fn = "rmempty" /\ Top.phase = "scan" /\ Top.entries = <<>>
    /\ stack' = Pop
    /\ ret' = "ok"
    /\ UNCHANGED <<app, fs, env, call, options, summary, pc, todo, btodo, cur, result,
                   run, prev, hist>>

\* ------------------------------------------------------------------------
\* clean_temp_files_with_options
\* ------------------------------------------------------------------------

\* the call: a new summary and the location registry
Start ==
    /\ pc = "start"
    /\ summary' = NewSummary
    /\ todo' = GetAllTempLocations(env)
    /\ pc' = "locations"
    /\ fs0' = fs
    /\ UNCHANGED <<app, fs, env, call, options, btodo, cur, stack, ret, result, run, prev,
                   entry, called, scanned>>

\* `for (location_name, paths) in temp_locations`: a HashMap yields its
\* entries in an arbitrary order
PickLocation ==
    /\ pc = "locations" /\ cur = NoLoc /\ todo # {}
    /\ \E name \in todo :
          /\ cur' = BeginLocation(name, LocationPaths(name), summary)
          /\ todo' = todo \ {name}
    /\ UNCHANGED <<app, fs, env, call, options, summary, pc, btodo, stack, ret, result,
                   run, prev, hist>>

\* one iteration of `for path in paths` up to the call
CleanPath ==
    /\ cur # NoLoc /\ stack = <<>> /\ ret = "none" /\ cur.paths # <<>>
    /\ LET p == Head(cur.paths)
           c == CleanCall(fs, summary, options, p)
       IN /\ cur' = [cur EXCEPT !.paths = Tail(@), !.path = p]
          /\ IF PathExists(fs, p)
             THEN /\ stack' = c.push
                  /\ ret' = c.ret
                  /\ entry' = [fs |-> fs, summary |-> summary]
                  /\ called' = {p}
                  /\ scanned' = IF c.push # <<>> THEN {p} ELSE {}
             ELSE UNCHANGED <<stack, ret, entry, called, scanned>>
    /\ UNCHANGED <<app, fs, env, call, options, summary, pc, todo, btodo, result, run,
                   prev, fs0>>

\* variant: the error is returned with `?` instead of being recorded
PathReturned_Propagate ==
    /\ cur # NoLoc /\ stack = <<>> /\ ret # "none"
    /\ IF ret = "ok"
       THEN UNCHANGED <<pc, result, cur, todo, btodo>>
       ELSE /\ pc' = "done" /\ result' = "Err" /\ cur' = NoLoc
            /\ UNCHANGED <<todo, btodo>>
    /\ ret' = "none"
    /\ UNCHANGED <<app, fs, env, call, options, summary, stack, run, prev, hist>>

\* the call has returned: `if let Err(e) = .. { summary.add_error(..) }`
PathReturned ==
    /\ cur # NoLoc /\ stack = <<>> /\ ret # "none"
    /\ summary' = IF ret = "ok" THEN summary
                  ELSE AddError(summary, IoError(cur.path, ret))
    /\ ret' = "none"
    /\ UNCHANGED <<app, fs, env, call, options, pc, todo, btodo, cur, stack, result, run,
                   prev, hist>>

\* variant: an entry is written only when files were deleted
CloseLocation_OnlyWhenDeleted ==
    /\ cur # NoLoc /\ stack = <<>> /\ ret = "none" /\ cur.paths = <<>>
    /\ LET files_cleaned == summary.deleted_files - cur.files
           size_cleaned == summary.total_size - cur.size
           errors_count == Len(summary.errors) - cur.errors
           skipped_count == summary.skipped_files - cur.skipped
       IN summary' =
            IF files_cleaned > 0
            THEN AddLocationData(summary, cur.name, files_cleaned, size_cleaned,
                                 errors_count, skipped_count)
            ELSE summary
    /\ cur' = NoLoc
    /\ UNCHANGED <<app, fs, env, call, options, pc, todo, btodo, stack, ret, result, run,
                   prev, hist>>

\* the statistics of the location: the deltas and add_location_data
CloseLocation ==
    /\ cur # NoLoc /\ stack = <<>> /\ ret = "none" /\ cur.paths = <<>>
    /\ LET files_cleaned == summary.deleted_files - cur.files
           size_cleaned == summary.total_size - cur.size
           errors_count == Len(summary.errors) - cur.errors
           skipped_count == summary.skipped_files - cur.skipped
       IN summary' =
            IF files_cleaned > 0 \/ errors_count > 0 \/ skipped_count > 0
            THEN AddLocationData(summary, cur.name, files_cleaned, size_cleaned,
                                 errors_count, skipped_count)
            ELSE summary
    /\ cur' = NoLoc
    /\ UNCHANGED <<app, fs, env, call, options, pc, todo, btodo, stack, ret, result, run,
                   prev, hist>>

\* the loop over the fixed locations
LocationPath == pc = "locations" /\ CleanPath
LocationPathReturned == pc = "locations" /\ PathReturned
FinishLocation == pc = "locations" /\ CloseLocation

\* the loop over the locations is over: clean_browser_caches is called
CallBrowserCaches ==
    /\ pc = "locations" /\ cur = NoLoc /\ todo = {}
    /\ pc' = "browsers"
    /\ btodo' = BrowserNames
    /\ UNCHANGED <<app, fs, env, call, options, summary, todo, cur, stack, ret, result,
                   run, prev, hist>>

\* `for browser in browsers`
PickBrowser ==
    /\ pc = "browsers" /\ cur = NoLoc /\ btodo # <<>>
    /\ cur' = BeginLocation(Head(btodo), BrowserCachePaths(Head(btodo), env),
                            summary)
    /\ btodo' = Tail(btodo)
    /\ UNCHANGED <<app, fs, env, call, options, summary, pc, todo, stack, ret, result,
                   run, prev, hist>>

\* the loops over base_paths and cache_subdirs of clean_browser_caches
CachePath == pc = "browsers" /\ CleanPath
CachePathReturned == pc = "browsers" /\ PathReturned
FinishBrowser == pc = "browsers" /\ CloseLocation

\* clean_browser_caches returns Ok(()) and clean_temp_files_with_options
\* returns Ok(summary)
Finish ==
    /\ pc = "browsers" /\ cur = NoLoc /\ btodo = <<>>
    /\ pc' = "done"
    /\ result' = "Ok"
    /\ UNCHANGED <<app, fs, env, call, options, summary, todo, btodo, cur, stack, ret,
                   run, prev, hist>>

\* the caller previews again, or cleans for real after a preview
Restart ==
    /\ pc = "done" /\ run < MaxRuns /\ options.dry_run
    /\ \E d \in BOOLEAN : options' = [options EXCEPT !.dry_run = d]
    /\ run' = run + 1
    /\ prev' = summary
    /\ pc' = "start"
    /\ result' = "none"
    /\ UNCHANGED <<app, fs, env, call, summary, todo, btodo, cur, stack, ret, hist>>

Next ==
    \/ Start
    \/ PickLocation
    \/ LocationPath
    \/ LocationPathReturned
    \/ FinishLocation
    \/ CallBrowserCaches
    \/ PickBrowser
    \/ CachePath
    \/ CachePathReturned
    \/ FinishBrowser
    \/ Finish
    \/ Restart
    \/ ScanEntry
    \/ RecurseSubdir
    \/ SubdirReturned
    \/ StartEmptyPass
    \/ EmptyPassReturned
    \/ RmEntry
    \/ RmAfterChild
    \/ RmDone

Spec == Init /\ [][Next]_vars

TypeOK ==
    /\ pc \in {"start", "locations", "browsers", "done"}
    /\ result \in {"none", "Ok", "Err"}
    /\ run \in 1..MaxRuns
    /\ summary.deleted_files >= 0

\* ------------------------------------------------------------------------
\* The free functions called on their own: every step calls one of them on
\* arguments drawn from bounded sets and records the call
\* ------------------------------------------------------------------------

\* longest file name and longest pattern handed to matches_pattern
MaxNameLen == 3
MaxPatLen == 4

\* every string over the characters S of length up to n
Strings(S, n) == UNION {[1..k -> S] : k \in 0..n}

NameChars == {"a", "A", "b"}
PatChars == {"A", "b", "*"}

N_report_LOG == <<"r","e","p","o","r","t",".","L","O","G">>
N_report_txt == <<"r","e","p","o","r","t",".","t","x","t">>
N_thumbcache_32_db ==
    <<"t","h","u","m","b","c","a","c","h","e","_","3","2",".","d","b">>
P_star_log == <<"*",".","l","o","g">>
P_thumbcache_star_db ==
    <<"t","h","u","m","b","c","a","c","h","e","_","*",".","d","b">>

\* the (filename, pattern) pairs matches_pattern is called on
PatternInputs ==
    (Strings(NameChars, MaxNameLen) \X Strings(PatChars, MaxPatLen))
    \cup {<<N_report_LOG, P_star_log>>, <<N_report_txt, P_star_log>>,
          <<N_thumbcache_32_db, P_thumbcache_star_db>>}

\* matches_pattern(filename, pattern)
CallMatchesPattern ==
    /\ call = NoCall
    /\ \E a \in PatternInputs :
          call' = [fn |-> "matches_pattern", filename |-> a[1],
                   pattern |-> a[2], out |-> MatchesPattern(a[1], a[2])]
    /\ UNCHANGED <<app, fs, env, options, summary, pc, todo, btodo, cur, stack, ret,
                   result, run, prev, hist>>

\* largest min_file_age_days handed to is_file_older_than_days on its own
MaxDays == 30

\* the ages (now - modified, in seconds) of the files it is called on: from
\* one day in the future to twelve days in the past, around the day marks
AgeInputs ==
    {0 - SecsPerDay, 0 - 1}
    \cup {d * SecsPerDay + e : d \in 0..12, e \in {0, 1}}
    \cup {d * SecsPerDay - 1 : d \in 1..12}

\* what a call is_file_older_than_days(path, days).unwrap_or(false) can come
\* to: the value computed with wrapping arithmetic, or, when the
\* multiplication overflows, the panic of a build with overflow checks
AgeCheckOutcomes(node, days) ==
    {IF IsFileOlderThanDays(node, days) THEN "true" ELSE "false"}
    \cup (IF ThresholdOverflows(days) THEN {"panic"} ELSE {})

\* is_file_older_than_days(path, days) on a file modified `age` seconds ago
CallIsFileOlderThanDays ==
    /\ call = NoCall
    /\ \E age \in AgeInputs, days \in 0..MaxDays :
          \E out \in AgeCheckOutcomes(FileNode(UT, N_a_tmp, 10, age), days) :
              call' = [fn |-> "is_file_older_than_days", age |-> age,
                       days |-> days, out |-> out]
    /\ UNCHANGED <<app, fs, env, options, summary, pc, todo, btodo, cur, stack, ret,
                   result, run, prev, hist>>

\* format_bytes is called on byte counts mantissa * 1024^exp: the mantissas
\* 0..MaxMantissa and a few larger ones, the exponents 0..MaxExp
MaxMantissa == 2100
MaxExp == 4

MantissaInputs == (0..MaxMantissa) \cup {10188, 10239, 10240, 10291, 1048575}

\* UNITS
Units == << <<"B","y","t","e","s">>, <<"K","B">>, <<"M","B">>, <<"G","B">>,
            <<"T","B">> >>

DigitChars == <<"0","1","2","3","4","5","6","7","8","9">>

RECURSIVE Digits(_)
\* the decimal digits of a natural number
Digits(n) ==
    IF n < 10 THEN <<DigitChars[n + 1]>>
    ELSE Digits(n \div 10) \o <<DigitChars[(n % 10) + 1]>>

\* n / d rounded to the nearest integer, a tie to the even one, as the exact
\* mode of core::fmt rounds the decimal expansion of an f64
RoundDiv(n, d) ==
    LET q == n \div d
        r == n % d
    IN IF 2 * r > d THEN q + 1
       ELSE IF 2 * r < d THEN q
       ELSE IF q % 2 = 0 THEN q ELSE q + 1

\* `size`, the f64 m * 1024^p (p may be negative; the divisions by 1024.0
\* are exact), compared with 1024.0
SizeAtLeast1024(m, p) ==
    IF p >= 1 THEN m >= 1
    ELSE IF p <= 0 - 3 THEN FALSE
    ELSE m >= 1024 ^ (1 - p)

\* `size < 10.0`
SizeBelow10(m, p) ==
    IF p >= 1 THEN m = 0
    ELSE IF p <= 0 - 3 THEN TRUE
    ELSE m < 10 * (1024 ^ (0 - p))

RECURSIVE FormatLoop(_, _, _)
\* `while size >= 1024.0 && unit_idx < UNITS.len() - 1`
FormatLoop(m, p, unit_idx) ==
    IF SizeAtLeast1024(m, p) /\ unit_idx < Len(Units) - 1
    THEN FormatLoop(m, p - 1, unit_idx + 1)
    ELSE [m |-> m, p |-> p, unit_idx |-> unit_idx]

\* format!("{:.d} {}", size, unit) for size = m * 1024^p
Render(m, p, d, unit) ==
    LET scaled == RoundDiv(m * (10 ^ d), 1024 ^ (0 - p))
        whole == IF p >= 0 THEN m * (1024 ^ p) ELSE scaled \div (10 ^ d)
        frac == IF p >= 0 THEN 0 ELSE scaled % (10 ^ d)
    IN Digits(whole) \o <<".">>
       \o (IF d = 2 THEN <<DigitChars[(frac \div 10) + 1]>> ELSE <<>>)
       \o <<DigitChars[(frac % 10) + 1]>>
       \o <<" ">> \o unit

\* variant: two decimals whenever size < 10.0, the Bytes unit included
FormatBytes_TwoDecimalsForBytes(m, e) ==
    LET r == FormatLoop(m, IF m = 0 THEN 0 ELSE e, 0)
    IN IF SizeBelow10(r.m, r.p)
       THEN Render(r.m, r.p, 2, Units[r.unit_idx + 1])
       ELSE Render(r.m, r.p, 1, Units[r.unit_idx + 1])

\* format_bytes(m * 1024^e); zero is 0 * 1024^0
FormatBytes(m, e) ==
    LET r == FormatLoop(m, IF m = 0 THEN 0 ELSE e, 0)
    IN IF SizeBelow10(r.m, r.p) /\ r.unit_idx > 0
       THEN Render(r.m, r.p, 2, Units[r.unit_idx + 1])
       ELSE Render(r.m, r.p, 1, Units[r.unit_idx + 1])

\* format_bytes(bytes)
CallFormatBytes ==
    /\ call = NoCall
    /\ \E m \in MantissaInputs, e \in 0..MaxExp :
          call' = [fn |-> "format_bytes", m |-> m, e |-> e,
                   out |-> FormatBytes(m, e)]
    /\ UNCHANGED <<app, fs, env, options, summary, pc, todo, btodo, cur, stack, ret,
                   result, run, prev, hist>>

\* the files process_file is called on: names, sizes in bytes, ages in seconds
FileNameInputs ==
    {N_a_tmp, N_hidden, N_desktop_ini, N_DESKTOP_INI, N_some_app_config,
     N_readme, N_data_1, N_report_LOG}

FileSizeInputs == {10, 15, 20}

FileAgeInputs == {0 - SecsPerDay, 0, SecsPerDay - 1, SecsPerDay, 2 * SecsPerDay}

\* location names: two fixed locations, a browser, and one the match on
\* location_name does not know
LocationInputs == {"Benutzer Temp", "System Temp", "Chrome Cache", "Test"}

\* the CleaningOptions it is called with: the default options with one
\* filter changed (or both size filters), each with every min_file_age_days
\* of {0, 1, 13} and as a dry and a real run; 13 is the first day count whose
\* threshold overflows at WordBits = 20
FilterInputs ==
    {DefaultOptions,
     [DefaultOptions EXCEPT !.target_extensions =
        [some |-> TRUE, exts |-> << <<"T","M","P">> >>]],
     [DefaultOptions EXCEPT !.target_extensions =
        [some |-> TRUE, exts |-> << <<"l","o","g">>, <<"i","n","i">> >>]],
     [DefaultOptions EXCEPT !.max_file_size = 15],
     [DefaultOptions EXCEPT !.min_file_size = 15],
     [DefaultOptions EXCEPT !.max_file_size = 15, !.min_file_size = 15],
     [DefaultOptions EXCEPT !.excluded_patterns = << <<"*",".","t","m","p">> >>]}

OptionInputs ==
    {[o EXCEPT !.min_file_age_days = days, !.dry_run = dry] :
        o \in FilterInputs, days \in {0, 1, 13}, dry \in BOOLEAN}

\* process_file gets as far as the call of is_file_older_than_days
AgeCheckReached(node, location_name, opts) ==
    FilterFile([node EXCEPT !.age = 0], location_name,
               [opts EXCEPT !.min_file_age_days = 0]) = "pass"

\* process_file(path, location_name, summary, options) on a fresh summary,
\* the file being the entry a.tmp of %TEMP% with its name, size and age
\* replaced; a build with overflow checks panics in is_file_older_than_days
\* when the threshold overflows
CallProcessFile ==
    /\ call = NoCall
    /\ \E nm \in FileNameInputs, sz \in FileSizeInputs, ag \in FileAgeInputs,
          loc \in LocationInputs, o \in OptionInputs :
          LET node == FileNode(UT, nm, sz, ag)
              f == [BaseFs EXCEPT ![F2] = node]
              r == ProcessFile(f, NewSummary, F2, loc, o)
              returned == [fn |-> "process_file", node |-> node,
                           location_name |-> loc, options |-> o,
                           panicked |-> FALSE, summary |-> r.summary,
                           gone |-> r.fs[F2].kind = "none"]
          IN \/ call' = returned
             \/ /\ AgeCheckReached(node, loc, o)
                /\ ThresholdOverflows(o.min_file_age_days)
                /\ call' = [returned EXCEPT !.panicked = TRUE,
                                            !.summary = NewSummary,
                                            !.gone = FALSE]
    /\ UNCHANGED <<app, fs, env, options, summary, pc, todo, btodo, cur, stack, ret,
                   result, run, prev, hist>>

\* the state before any call: the variables of the cleaning run keep the
\* values of the base configuration
InitFn ==
    /\ fs = BaseFs /\ options = DefaultOptions /\ env = EnvVars
    /\ fs0 = BaseFs
    /\ entry = [fs |-> BaseFs, summary |-> NewSummary]
    /\ summary = NewSummary
    /\ pc = "start"
    /\ todo = {}
    /\ btodo = <<>>
    /\ cur = NoLoc
    /\ stack = <<>>
    /\ ret = "none"
    /\ result = "none"
    /\ run = 1
    /\ prev = NewSummary
    /\ called = {}
    /\ scanned = {}
    /\ call = NoCall
    /\ NewApp

NextFn ==
    \/ CallMatchesPattern
    \/ CallIsFileOlderThanDays
    \/ CallFormatBytes
    \/ CallProcessFile

SpecFn == InitFn /\ [][NextFn]_vars

\* ------------------------------------------------------------------------
\* RustyCleanApp: monitoring (ui/app.rs)
\* ------------------------------------------------------------------------

\* most status fetches under way at once, most timer messages waiting, and
\* the largest cpu_usage reading a fetched status carries
MaxFetching == 2
MaxTicks == 2
MaxReading == 2

\* the values get_system_status can deliver, told apart by cpu_usage; 0 is
\* also the status built when get_system_status fails
Statuses == {[some |-> TRUE, cpu_usage |-> r] : r \in 0..MaxReading}

\* the state of the cleaner, which the monitoring messages leave alone
cleaner == <<fs, env, options, summary, pc, todo, btodo, cur, stack, ret, result,
             run, prev, fs0, entry, called, scanned, call>>

\* Command::perform(async { get_system_status() .. }, SystemStatusUpdated):
\* the future is handed to the executor and will deliver status s
Perform(s) == Append(fetching, s)

\* Message::ToggleMonitoring
ToggleMonitoring ==
    /\ monitoring_active' = ~monitoring_active
    /\ IF monitoring_active'
       THEN /\ Len(fetching) < MaxFetching
            /\ \E s \in Statuses : fetching' = Perform(s)
            /\ UNCHANGED system_status
       ELSE /\ system_status' = NoStatus
            /\ UNCHANGED fetching
    /\ UNCHANGED <<ticks, cleaner>>

\* subscription: while monitoring is active, time::every(2 s) produces an
\* UpdateSystemStatus message
TimerFires ==
    /\ monitoring_active
    /\ ticks < MaxTicks
    /\ ticks' = ticks + 1
    /\ UNCHANGED <<monitoring_active, system_status, fetching, cleaner>>

\* Message::UpdateSystemStatus
UpdateSystemStatus ==
    /\ ticks > 0
    /\ ticks' = ticks - 1
    /\ IF monitoring_active
       THEN /\ Len(fetching) < MaxFetching
            /\ \E s \in Statuses : fetching' = Perform(s)
       ELSE UNCHANGED fetching
    /\ UNCHANGED <<monitoring_active, system_status, cleaner>>

\* Message::SystemStatusUpdated(status): one of the futures completes, in
\* any order, and its message is handled
SystemStatusUpdated ==
    /\ \E i \in 1..Len(fetching) :
          /\ system_status' = fetching[i]
          /\ fetching' = SubSeq(fetching, 1, i - 1)
                         \o SubSeq(fetching, i + 1, Len(fetching))
    /\ UNCHANGED <<monitoring_active, ticks, cleaner>>

\* the application after new(), the cleaner idle in its base configuration
InitApp ==
    /\ fs = BaseFs /\ options = DefaultOptions /\ env = EnvVars
    /\ fs0 = BaseFs
    /\ entry = [fs |-> BaseFs, summary |-> NewSummary]
    /\ summary = NewSummary
    /\ pc = "start"
    /\ todo = {}
    /\ btodo = <<>>
    /\ cur = NoLoc
    /\ stack = <<>>
    /\ ret = "none"
    /\ result = "none"
    /\ run = 1
    /\ prev = NewSummary
    /\ called = {}
    /\ scanned = {}
    /\ call = NoCall
    /\ NewApp

NextApp ==
    \/ ToggleMonitoring
    \/ TimerFires
    \/ UpdateSystemStatus
    \/ SystemStatusUpdated

SpecApp == InitApp /\ [][NextApp]_vars

\* ------------------------------------------------------------------------
\* Properties
\* ------------------------------------------------------------------------

\* the next step hands file n to process_file
InProcessFile(n) ==
    /\ stack # <<>> /\ ret = "none"
    /\ Top.fn = "clean" /\ Top.phase = "scan" /\ Top.entries # <<>>
    /\ Head(Top.entries) = n
    /\ IsFile(fs, n)
    /\ ~LimitReached(summary, options)

\* the top-level clean_directory_advanced call on cur.path has just returned
TopCallReturned == cur # NoLoc /\ stack = <<>> /\ ret # "none"

\* the next step calls clean_directory_advanced on an existing directory
CallPending ==
    /\ ret = "none"
    /\ \/ /\ stack # <<>> /\ Top.fn = "clean" /\ Top.phase = "scan"
          /\ Top.entries = <<>> /\ Top.dirs # <<>>
       \/ /\ stack = <<>> /\ cur # NoLoc /\ cur.paths # <<>>
          /\ PathExists(fs, Head(cur.paths))

\* the nodes no location contains: they are reached only through LNK
Outside == {XD, FX, XE}

\* C1 (first half): a step taken with dry_run = true leaves the file system
\* as it is.
C1_DryRunKeepsFs == [][options.dry_run => fs' = fs]_vars

\* C1: when a dry run is followed by a second dry run over the same tree,
\* the second run returns the deleted_files and total_size of the first.
C1_SecondDryRunSame ==
    (pc = "done" /\ run = 2 /\ options.dry_run)
        => /\ summary.deleted_files = prev.deleted_files
           /\ summary.total_size = prev.total_size

\* the deleted_files half of C1 alone
C1_SecondDryRunSameCount ==
    (pc = "done" /\ run = 2 /\ options.dry_run)
        => summary.deleted_files = prev.deleted_files

\* C2: a symbolic link to a directory is never followed: no call of
\* clean_directory_advanced or remove_empty_directories_safe works on the
\* link or on a directory reached through it, nothing that is reached only
\* through the link changes, and the scan that meets the link in a recursive
\* run adds exactly one to skipped_files.
C2_SymlinkNeverFollowed ==
    [][/\ \A i \in 1..Len(stack') :
            /\ ~IsSymlink(fs', stack'[i].dir)
            /\ stack'[i].dir \notin Outside
       /\ \A n \in Outside : fs'[n] = fs[n]
       /\ (/\ stack # <<>> /\ ret = "none" /\ Top.fn = "clean"
           /\ Top.phase = "scan" /\ Top.entries # <<>>
           /\ IsSymlink(fs, Head(Top.entries))
           /\ IsDir(fs, Head(Top.entries), 0)
           /\ options.recursive
           /\ ~LimitReached(summary, options))
          => summary'.skipped_files = summary.skipped_files + 1
      ]_vars

\* the scan half of C2, which the code keeps: clean_directory_advanced is
\* never called on a link or on a directory behind it
C2_ScanSkipsLink ==
    \A i \in 1..Len(stack) :
        stack[i].fn = "clean" =>
            ~IsSymlink(fs, stack[i].dir) /\ stack[i].dir \notin Outside

\* C3: when a top-level clean_directory_advanced call of a recursive run
\* without max_files returns, every file and every real subdirectory of every
\* directory it listed has been handed to process_file or
\* clean_directory_advanced, whatever failed on the way.
C3_SiblingsStillProcessed ==
    (TopCallReturned /\ options.recursive /\ options.max_files = 0)
        => \A p \in scanned : \A c \in Nodes :
              (entry.fs[c].parent = p /\ entry.fs[c].kind \in {"file", "dir"})
                  => c \in called

\* the part of C3 the code keeps: every file of a listed directory is handed
\* to process_file
C3_SiblingFilesProcessed ==
    (TopCallReturned /\ options.recursive /\ options.max_files = 0)
        => \A p \in scanned : \A c \in Nodes :
              (entry.fs[c].parent = p /\ entry.fs[c].kind = "file")
                  => c \in called

\* directory p of location `name`, if it could be listed when the run
\* started, has lost every file of its own that passes the filters of that
\* location and can be deleted
RootCleaned(name, p) ==
    (PathExists(fs0, p) /\ fs0[p].list)
        => \A c \in Nodes :
              (/\ fs0[c].parent = p /\ fs0[c].kind = "file" /\ fs0[c].del = "ok"
               /\ FilterFile(fs0[c], name, options) = "pass")
                  => fs[c].kind = "none"

\* C4: clean_temp_files_with_options returns Ok(summary), having gone
\* through every registry location and every browser; an error returned by
\* a top-level clean_directory_advanced call is appended to summary.errors
\* and the loops go on.
C4_AlwaysOk ==
    /\ [](result # "Err")
    /\ [](pc = "done" =>
            /\ result = "Ok" /\ todo = {} /\ btodo = <<>> /\ cur = NoLoc
            /\ (~options.dry_run /\ options.max_files = 0) =>
                 /\ \A name \in GetAllTempLocations(env) :
                       \A i \in 1..Len(LocationPaths(name)) :
                           RootCleaned(name, LocationPaths(name)[i])
                 /\ \A j \in 1..Len(BrowserNames) :
                       \A i \in 1..Len(BrowserCachePaths(BrowserNames[j], env)) :
                           RootCleaned(BrowserNames[j],
                                       BrowserCachePaths(BrowserNames[j], env)[i]))
    /\ [][(TopCallReturned /\ ret # "ok")
            => /\ summary'.errors = Append(summary.errors, IoError(cur.path, ret))
               /\ pc' = pc /\ todo' = todo /\ btodo' = btodo /\ cur' = cur
               /\ result' = "none"]_vars

\* a run in which the first directory of System Temp could not be listed, the
\* error was recorded, and the next directory of the location and the
\* browser cache were still cleaned
C4_Witness ==
    /\ pc = "done" /\ result = "Ok"
    /\ \E i \in 1..Len(summary.errors) :
          summary.errors[i] = IoError(UT, "read_dir")
    /\ fs0[G1].kind = "file" /\ fs[G1].kind = "none"
    /\ fs0[F8].kind = "file" /\ fs[F8].kind = "none"

\* the INetCache directory held exactly a.tmp (2 days, 10 bytes), b.cache
\* (0 days, 10 bytes) and desktop.ini (2 days) when the top-level call on it
\* was made under a location with the generic protected list and default
\* options, and that call has returned
C5_Scenario ==
    /\ TopCallReturned /\ cur.path = IC
    /\ ProtectedFiles(cur.name) = GenericProtected
    /\ options = DefaultOptions
    /\ entry.fs[IC].kind = "dir" /\ entry.fs[IC].list
    /\ \A g \in {G1, G2, G3} : entry.fs[g] = BaseFs[g]

\* C5: in the concrete scenario the call deletes a.tmp alone: deleted_files
\* rises by 1, total_size by 10, skipped_files by 2, no error is added, and
\* b.cache and desktop.ini are still there.
C5_ConcreteScenario ==
    C5_Scenario =>
        /\ ret = "ok"
        /\ summary.deleted_files = entry.summary.deleted_files + 1
        /\ summary.total_size = entry.summary.total_size + 10
        /\ summary.skipped_files = entry.summary.skipped_files + 2
        /\ summary.errors = entry.summary.errors
        /\ fs[G1].kind = "none"
        /\ fs[G2] = BaseFs[G2]
        /\ fs[G3] = BaseFs[G3]

\* the scenario cleaned into a fresh summary
C5_Witness ==
    /\ C5_Scenario
    /\ entry.summary = NewSummary
    /\ summary.deleted_files = 1 /\ summary.total_size = 10
    /\ summary.skipped_files = 2 /\ summary.errors = <<>>

\* C6: with max_files > 0, deleted_files never exceeds max_files; once the
\* limit is reached no step of the run deletes a file or counts one; and a
\* clean_directory_advanced call made with the limit reached returns Ok at
\* once, leaving summary and file system as they are.
C6_MaxFiles ==
    /\ [](options.max_files > 0 => summary.deleted_files <= options.max_files)
    /\ [][(LimitReached(summary, options) /\ pc \in {"locations", "browsers"})
            => /\ summary'.deleted_files = summary.deleted_files
               /\ summary'.total_size = summary.total_size
               /\ \A n \in Nodes : fs[n].kind = "file" => fs'[n] = fs[n]]_vars
    /\ [][(LimitReached(summary, options) /\ CallPending)
            => /\ summary' = summary /\ fs' = fs
               /\ Len(stack') = Len(stack) /\ ret' = "ok"]_vars

\* a call is about to be made with the limit reached while an eligible file
\* is still waiting in the directory
C6_Witness ==
    /\ options.max_files = 1 /\ summary.deleted_files = 1
    /\ ~options.dry_run
    /\ CallPending /\ stack # <<>>
    /\ fs[F4].kind = "file" /\ Head(Top.dirs) = S1

RECURSIVE Under(_, _, _)
\* d lies strictly below directory p
Under(f, d, p) ==
    IF d = NoPath \/ f[d].parent = NoPath THEN FALSE
    ELSE f[d].parent = p \/ Under(f, f[d].parent, p)

RECURSIVE WillBeEmpty(_, _, _)
\* directory d of tree f holds nothing but files that pass the filters and
\* directories of which the same is true
WillBeEmpty(f, d, name) ==
    /\ f[d].kind = "dir" /\ f[d].list
    /\ \A c \in Nodes :
          (f[c].parent = d /\ f[c].kind # "none")
              => \/ f[c].kind = "file" /\ FilterFile(f[c], name, options) = "pass"
                 \/ f[c].kind = "dir" /\ WillBeEmpty(f, c, name)

\* directory d of tree f holds a file the filters keep
KeepsFile(f, d, name) ==
    \E c \in Nodes :
        /\ f[c].parent = d /\ f[c].kind = "file"
        /\ FilterFile(f[c], name, options) = "skip"

\* C7: when a top-level call of a recursive, non-dry run with
\* remove_empty_dirs (no max_files, no delete that can fail) on a location
\* directory that can be listed returns, every directory below the location
\* directory that held only eligible files and such directories is gone, and
\* every directory holding a file the filters keep is still there.
C7_EmptyDirsRemoved ==
    (/\ TopCallReturned
     /\ options.recursive /\ ~options.dry_run /\ options.remove_empty_dirs
     /\ options.max_files = 0
     /\ entry.fs[cur.path].kind = "dir" /\ entry.fs[cur.path].list
     /\ \A n \in Nodes : entry.fs[n].del = "ok")
        => \A d \in Nodes :
              (Under(entry.fs, d, cur.path) /\ entry.fs[d].kind = "dir")
                  => /\ WillBeEmpty(entry.fs, d, cur.name) => fs[d].kind = "none"
                     /\ KeepsFile(entry.fs, d, cur.name) => fs[d].kind = "dir"

\* C7 restricted to trees in which every directory can be listed and every
\* entry can be read
C7_WhenNothingFails ==
    (\A n \in Nodes : entry.fs[n].list /\ entry.fs[n].kind # "bad")
        => C7_EmptyDirsRemoved

\* C8: a delete attempt that fails with a sharing or lock violation appends
\* FileInUse(path), adds one to skipped_files, leaves deleted_files,
\* total_size and the file alone, and the scan goes on with the next entry.
C8_FileInUse ==
    [][\A n \in Nodes :
         (/\ InProcessFile(n)
          /\ FilterFile(fs[n], cur.name, options) = "pass"
          /\ ~options.dry_run
          /\ fs[n].del \in {"sharing", "lock"})
            => /\ summary'.errors = Append(summary.errors, FileInUse(n))
               /\ summary'.skipped_files = summary.skipped_files + 1
               /\ summary'.deleted_files = summary.deleted_files
               /\ summary'.total_size = summary.total_size
               /\ fs' = fs
               /\ stack' = SetTop([Top EXCEPT !.entries = Tail(@)])
               /\ ret' = "none" /\ pc' = pc /\ cur' = cur]_vars

\* a finished run that recorded FileInUse for a lock violation on a.tmp and
\* went on to delete the files of the subdirectories
C8_Witness ==
    /\ pc = "done" /\ result = "Ok"
    /\ fs[F2].kind = "file" /\ fs[F2].del = "lock"
    /\ \E i \in 1..Len(summary.errors) : summary.errors[i] = FileInUse(F2)
    /\ fs0[F4].kind = "file" /\ fs[F4].kind = "none"

\* C9: a delete attempt that fails with a plain permission error (no
\* sharing or lock violation) appends PermissionDenied(path).
C9_PermissionDenied ==
    [][\A n \in Nodes :
         (/\ InProcessFile(n)
          /\ FilterFile(fs[n], cur.name, options) = "pass"
          /\ ~options.dry_run
          /\ fs[n].del = "perm")
            => summary'.errors = Append(summary.errors, PermissionDenied(n))]_vars

\* what the code does: no PermissionDenied error is ever recorded
C9_NeverPermissionDenied ==
    \A i \in 1..Len(summary.errors) : summary.errors[i].kind # "PermissionDenied"

\* file n is not hidden, not excluded and not protected in the current
\* location, there is no extension or size filter and min_file_age_days = 0,
\* its metadata can be read and a delete would succeed
C10_Case(n) ==
    /\ InProcessFile(n)
    /\ options.min_file_age_days = 0
    /\ ~options.target_extensions.some
    /\ options.max_file_size = 0 /\ options.min_file_size = 0
    /\ ~ShouldSkipFileAdvanced(fs[n].name, cur.name, options)
    /\ fs[n].meta /\ fs[n].del = "ok"

C10_Deleted(n) ==
    /\ summary'.deleted_files = summary.deleted_files + 1
    /\ summary'.total_size = summary.total_size + fs[n].size
    /\ summary'.skipped_files = summary.skipped_files
    /\ ~options.dry_run => fs'[n].kind = "none"

\* C10 as claimed: with min_file_age_days = 0 such a file is deleted
\* whatever its modification time, also one later than now.
C10_AnyModificationTime ==
    [][\A n \in Nodes : C10_Case(n) => C10_Deleted(n)]_vars

\* C10 amended: such a file is deleted when its modification time is not
\* later than now, and skipped when it is.
C10_NotLaterThanNow ==
    [][\A n \in Nodes :
         C10_Case(n) =>
            IF fs[n].age >= 0
            THEN C10_Deleted(n)
            ELSE /\ summary'.skipped_files = summary.skipped_files + 1
                 /\ summary'.deleted_files = summary.deleted_files
                 /\ fs' = fs]_vars

\* a finished real run with min_file_age_days = 0 in which b.cache, modified
\* zero seconds ago, was deleted
C10_Witness ==
    /\ pc = "done" /\ options.min_file_age_days = 0 /\ ~options.dry_run
    /\ fs0[G2].kind = "file" /\ fs0[G2].age = 0 /\ fs[G2].kind = "none"

\* C11: when min_file_age_days is larger than the age in days of the file,
\* is_file_older_than_days does not answer true and process_file does not
\* delete or count the file, for every min_file_age_days, those whose
\* threshold in seconds overflows included.
C11_NoneEligible ==
    /\ (/\ call.fn = "is_file_older_than_days"
        /\ call.age < call.days * SecsPerDay)
          => call.out # "true"
    /\ (/\ call.fn = "process_file"
        /\ call.node.age < call.options.min_file_age_days * SecsPerDay)
          => ~call.gone /\ call.summary.deleted_files = 0

\* C11 for the day counts whose threshold does not overflow
C11_WithoutOverflow ==
    /\ (/\ call.fn = "is_file_older_than_days"
        /\ ~ThresholdOverflows(call.days)
        /\ call.age < call.days * SecsPerDay)
          => call.out = "false"
    /\ (/\ call.fn = "process_file"
        /\ ~ThresholdOverflows(call.options.min_file_age_days)
        /\ call.node.age < call.options.min_file_age_days * SecsPerDay)
          => ~call.gone /\ call.summary.deleted_files = 0

\* a real run that followed a dry run over the same tree has finished, and
\* no file or directory of the tree resists deletion
C12_RealAfterDry ==
    /\ pc = "done" /\ run > 1 /\ ~options.dry_run
    /\ \A n \in Nodes : fs0[n].del = "ok"

\* C12: the dry run ended with the deleted_files, total_size, skipped_files
\* and empty_dirs_removed of the real run on the same tree.
C12_DryRunCountsLikeRealRun ==
    C12_RealAfterDry =>
        /\ prev.deleted_files = summary.deleted_files
        /\ prev.total_size = summary.total_size
        /\ prev.skipped_files = summary.skipped_files
        /\ prev.empty_dirs_removed = summary.empty_dirs_removed

\* the part of C12 the code keeps: when no directory is cleaned under two
\* locations (USERPROFILE unset, so that %TEMP% belongs to Benutzer Temp
\* alone), the three file counters of the dry run are those of the real run
C12_FileCountersSame ==
    (C12_RealAfterDry /\ "USERPROFILE" \notin env) =>
        /\ prev.deleted_files = summary.deleted_files
        /\ prev.total_size = summary.total_size
        /\ prev.skipped_files = summary.skipped_files

\* a and b have the same length and agree character by character once
\* upper-case letters are replaced by lower-case ones
SameIgnoringCase(a, b) ==
    /\ Len(a) = Len(b)
    /\ \A i \in 1..Len(a) : LowerChar(a[i]) = LowerChar(b[i])

\* the positions of `*` in pattern p
Stars(p) == {i \in 1..Len(p) : p[i] = "*"}

\* C13: matches_pattern ignores case; without a star it is true iff filename
\* and pattern are equal ignoring case; with exactly one star it is true iff
\* filename starts with the text before the star and ends with the text
\* after it; ("report.LOG","*.log") and
\* ("thumbcache_32.db","thumbcache_*.db") match, ("report.txt","*.log") and
\* ("a","") do not, ("","") does.
C13_MatchesPattern ==
    call.fn = "matches_pattern" =>
        LET f == call.filename
            p == call.pattern
        IN /\ call.out = MatchesPattern(ToLower(f), p)
           /\ call.out = MatchesPattern(f, ToLower(p))
           /\ Stars(p) = {} => (call.out <=> SameIgnoringCase(f, p))
           /\ Cardinality(Stars(p)) = 1 =>
                LET k == CHOOSE i \in Stars(p) : TRUE
                    before == k - 1
                    after == Len(p) - k
                IN call.out <=>
                     /\ Len(f) >= before
                     /\ SameIgnoringCase(SubSeq(f, 1, before), SubSeq(p, 1, before))
                     /\ Len(f) >= after
                     /\ SameIgnoringCase(SubSeq(f, Len(f) - after + 1, Len(f)),
                                         SubSeq(p, k + 1, Len(p)))
           /\ (f = N_report_LOG /\ p = P_star_log) => call.out
           /\ (f = N_thumbcache_32_db /\ p = P_thumbcache_star_db) => call.out
           /\ (f = N_report_txt /\ p = P_star_log) => ~call.out
           /\ (f = <<"a">> /\ p = <<>>) => ~call.out
           /\ (f = <<>> /\ p = <<>>) => call.out

\* matches_pattern("report.LOG", "*.log") was called and returned true
C13_Witness ==
    /\ call.fn = "matches_pattern"
    /\ call.filename = N_report_LOG /\ call.pattern = P_star_log
    /\ call.out

RECURSIVE WildcardMatch(_, _)
\* reference wildcard matching: each `*` stands for zero or more characters
WildcardMatch(f, p) ==
    IF p = <<>> THEN f = <<>>
    ELSE IF Head(p) = "*"
         THEN WildcardMatch(f, Tail(p))
              \/ (f # <<>> /\ WildcardMatch(Tail(f), p))
         ELSE /\ f # <<>>
              /\ LowerChar(Head(f)) = LowerChar(Head(p))
              /\ WildcardMatch(Tail(f), Tail(p))

\* C14: for a pattern with two or more stars matches_pattern returns what
\* reference wildcard matching returns.
C14_MultiStarIsWildcard ==
    (call.fn = "matches_pattern" /\ Cardinality(Stars(call.pattern)) >= 2)
        => (call.out <=> WildcardMatch(call.filename, call.pattern))

\* C15: when the processing of a fixed location or of a browser begins, the
\* counters of the summary are remembered and the summary has no entry
\* under its name; when it ends, cleaned_locations holds an entry under its
\* name iff deleted_files, the number of errors or skipped_files rose in
\* between, the entry's deleted_files, total_size, errors and skipped_files
\* are those rises, and nothing else of the summary changes.
C15_LocationDeltas ==
    [][/\ (cur = NoLoc /\ cur' # NoLoc) =>
            /\ cur'.files = summary.deleted_files
            /\ cur'.size = summary.total_size
            /\ cur'.errors = Len(summary.errors)
            /\ cur'.skipped = summary.skipped_files
            /\ cur'.name \notin DOMAIN summary.cleaned_locations
            /\ summary' = summary
       /\ (cur # NoLoc /\ cur' # NoLoc) =>
            /\ cur'.name = cur.name
            /\ cur'.files = cur.files /\ cur'.size = cur.size
            /\ cur'.errors = cur.errors /\ cur'.skipped = cur.skipped
            /\ summary'.cleaned_locations = summary.cleaned_locations
       /\ (cur # NoLoc /\ cur' = NoLoc) =>
            LET files == summary.deleted_files - cur.files
                size == summary.total_size - cur.size
                errors == Len(summary.errors) - cur.errors
                skipped == summary.skipped_files - cur.skipped
                m == summary'.cleaned_locations
            IN /\ cur.name \in DOMAIN m
                    <=> (files > 0 \/ errors > 0 \/ skipped > 0)
               /\ cur.name \in DOMAIN m =>
                    /\ m[cur.name].deleted_files = files
                    /\ m[cur.name].total_size = size
                    /\ m[cur.name].errors = errors
                    /\ m[cur.name].skipped_files = skipped
               /\ DOMAIN m \ {cur.name} = DOMAIN summary.cleaned_locations
               /\ \A k \in DOMAIN summary.cleaned_locations :
                    m[k] = summary.cleaned_locations[k]
               /\ summary'.deleted_files = summary.deleted_files
               /\ summary'.total_size = summary.total_size
               /\ summary'.errors = summary.errors
               /\ summary'.skipped_files = summary.skipped_files
      ]_vars

\* a call has returned whose summary has an entry for "Benutzer Temp" with
\* deleted and skipped files, an entry for "Chrome Cache" with nothing
\* deleted, and no entry for "Opera Cache", where nothing rose
C15_Witness ==
    /\ pc = "done" /\ result = "Ok"
    /\ {"Benutzer Temp", "Chrome Cache"} \subseteq DOMAIN summary.cleaned_locations
    /\ summary.cleaned_locations["Benutzer Temp"].deleted_files > 0
    /\ summary.cleaned_locations["Benutzer Temp"].skipped_files > 0
    /\ summary.cleaned_locations["Chrome Cache"].deleted_files = 0
    /\ "Opera Cache" \notin DOMAIN summary.cleaned_locations

\* a fixed location whose variable is unset is not in the registry: it is
\* never processed and gets no entry
C16_FixedLocationsDisabled ==
    \A name \in FixedLocations :
        LocationVar(name) \notin env =>
            /\ cur.name # name
            /\ name \notin DOMAIN summary.cleaned_locations

\* C16: a fixed location or a browser whose environment variable is unset is
\* disabled: while it is processed no directory is traversed, nothing is
\* deleted, counted or recorded as an error, and it gets no entry.
C16_UnsetVariableDisables ==
    /\ C16_FixedLocationsDisabled
    /\ \A i \in 1..Len(BrowserNames) :
          LET name == BrowserNames[i]
          IN BrowserVar(name) \notin env =>
                /\ name \notin DOMAIN summary.cleaned_locations
                /\ cur.name = name =>
                      /\ stack = <<>> /\ ret = "none"
                      /\ summary.deleted_files = cur.files
                      /\ summary.skipped_files = cur.skipped
                      /\ Len(summary.errors) = cur.errors
                      /\ fs[FP] = fs0[FP]

\* the directories the active calls of function fn work on, in call order
ActiveDirs(fn) ==
    LET idx == {i \in 1..Len(stack) : stack[i].fn = fn}
    IN [i \in idx |-> Resolve(fs, stack[i].dir)]

\* no directory is entered by fn while a call of fn on it is still active:
\* the recursion is as deep as the tree at most
NoReentry(fn) ==
    \A i, j \in DOMAIN ActiveDirs(fn) :
        i # j => ActiveDirs(fn)[i] # ActiveDirs(fn)[j]

\* the file pass never re-enters a directory
C17_FilePassBounded == NoReentry("clean")

Log1024(m) == IF m < 1024 THEN 0 ELSE IF m < 1024 * 1024 THEN 1 ELSE 2

\* the unit format_bytes(m * 1024^e) has to choose: one step per factor of
\* 1024, TB being the last
UnitIndex(m, e) ==
    IF m = 0 THEN 0
    ELSE IF e + Log1024(m) > Len(Units) - 1 THEN Len(Units) - 1
    ELSE e + Log1024(m)

\* out is m * 1024^e scaled to unit k and rounded to d decimals, followed by
\* a space and the unit: the scaled value is whole + rem / den, and n is its
\* fraction rounded to units of 10^-d (10^d when it rounds up to one)
Rendered(m, e, k, d, out) ==
    LET num == IF m > 0 /\ e >= k THEN m * (1024 ^ (e - k)) ELSE m
        den == IF m = 0 \/ e >= k THEN 1 ELSE 1024 ^ (k - e)
        whole == num \div den
        rem == num % den
        q == (rem * (10 ^ d)) \div den
    IN \E n \in {q, q + 1} :
          /\ 2 * n * den - 2 * rem * (10 ^ d) <= den
          /\ 2 * rem * (10 ^ d) - 2 * n * den <= den
          /\ LET f == n % (10 ^ d)
             IN out = Digits(whole + (n \div (10 ^ d))) \o <<".">>
                      \o (IF d = 2 THEN <<DigitChars[(f \div 10) + 1]>> ELSE <<>>)
                      \o <<DigitChars[(f % 10) + 1]>>
                      \o <<" ">> \o Units[k + 1]

\* the scaled value of m * 1024^e in unit k is below 10
ScaledBelow10(m, e, k) ==
    IF m = 0 THEN TRUE
    ELSE IF e >= k THEN m * (1024 ^ (e - k)) < 10
    ELSE m < 10 * (1024 ^ (k - e))

S_0_0_Bytes == <<"0",".","0"," ","B","y","t","e","s">>
S_0_00_Bytes == <<"0",".","0","0"," ","B","y","t","e","s">>
S_1_00_KB == <<"1",".","0","0"," ","K","B">>
S_1_50_KB == <<"1",".","5","0"," ","K","B">>

S_1_0_KB == <<"1",".","0"," ","K","B">>
S_1_0_MB == <<"1",".","0"," ","M","B">>
S_1_0_GB == <<"1",".","0"," ","G","B">>

\* C19: format_bytes renders zero as "0.0 Bytes" and an exact power of 1024
\* with one decimal: format_bytes(1024) = "1.0 KB", format_bytes(1048576) =
\* "1.0 MB", format_bytes(1073741824) = "1.0 GB".
C19_PowersWithOneDecimal ==
    call.fn = "format_bytes" =>
        /\ call.m = 0 => call.out = S_0_0_Bytes
        /\ (call.m = 1 /\ call.e = 1) => call.out = S_1_0_KB
        /\ (call.m = 1 /\ call.e = 2) => call.out = S_1_0_MB
        /\ (call.m = 1 /\ call.e = 3) => call.out = S_1_0_GB

\* the zero case of C19 alone, which the code meets
C19_Zero == (call.fn = "format_bytes" /\ call.m = 0) => call.out = S_0_0_Bytes

\* the conditions under which a file is to be deleted: not hidden, not
\* excluded, not protected at the location, of a wanted extension, within
\* the size bounds, and modified at least `days` days before now
Eligible(node, location_name, opts) ==
    /\ ~(node.name # <<>> /\ Head(node.name) = ".")
    /\ \A i \in 1..Len(opts.excluded_patterns) :
          ~MatchesPattern(node.name, opts.excluded_patterns[i])
    /\ \A i \in 1..Len(ProtectedFiles(location_name)) :
          ~MatchesPattern(node.name, ProtectedFiles(location_name)[i])
    /\ opts.target_extensions.some =>
          \E i \in 1..Len(opts.target_extensions.exts) :
              \E ext \in Extension(node.name) :
                  ToLower(ext) = ToLower(opts.target_extensions.exts[i])
    /\ opts.max_file_size = 0 \/ node.size <= opts.max_file_size
    /\ opts.min_file_size = 0 \/ node.size >= opts.min_file_size
    /\ node.age >= 0
    /\ node.age >= opts.min_file_age_days * SecsPerDay

\* the call deleted the file, or counted it as deleted in a dry run
Deleted(c) ==
    /\ c.summary.deleted_files = 1
    /\ c.summary.total_size = c.node.size
    /\ c.options.dry_run \/ c.gone

\* process_file returned, on a file whose metadata can be read and whose
\* removal succeeds
ProcessFileReturned ==
    /\ call.fn = "process_file" /\ ~call.panicked
    /\ call.node.meta /\ call.node.del = "ok"

\* C20: a regular file visited by process_file is deleted (or counted as
\* deleted in a dry run) iff its name does not start with a dot, matches no
\* excluded pattern and no protected name of the location, its extension is
\* wanted, its size lies within the bounds, and it was modified at least
\* min_file_age_days * 86400 seconds before now.
C20_DeletedIffEligible ==
    ProcessFileReturned =>
        (Deleted(call) <=> Eligible(call.node, call.location_name, call.options))

\* the same for the day counts whose threshold does not overflow
C20_WithoutOverflow ==
    (ProcessFileReturned /\ ~ThresholdOverflows(call.options.min_file_age_days))
        => (Deleted(call) <=> Eligible(call.node, call.location_name, call.options))

\* the summary s2 is s1 with `files` more deleted files of `size` bytes in
\* all, `skipped` more skipped files and `errors` more errors, the earlier
\* errors kept
SummaryRose(s1, s2, files, size, skipped, errors) ==
    /\ s2.deleted_files = s1.deleted_files + files
    /\ s2.total_size = s1.total_size + size
    /\ s2.skipped_files = s1.skipped_files + skipped
    /\ Len(s2.errors) = Len(s1.errors) + errors
    /\ SubSeq(s2.errors, 1, Len(s1.errors)) = s1.errors

\* C21: a step that hands a regular file to process_file changes the summary
\* by exactly one outcome: one more deleted file and its size more bytes; or
\* one more skipped file and no error; or one more skipped file and one
\* error, the removal having failed; or one error alone, the metadata being
\* unreadable.  No step of a call lowers a counter.
C21_OneOutcomePerFile ==
    [][/\ (stack # <<>> /\ Top.entries # <<>> /\ InProcessFile(Head(Top.entries))) =>
            LET n == Head(Top.entries)
            IN /\ \/ SummaryRose(summary, summary', 1, fs[n].size, 0, 0)
                  \/ SummaryRose(summary, summary', 0, 0, 1, 0)
                  \/ /\ SummaryRose(summary, summary', 0, 0, 1, 1)
                     /\ fs[n].del # "ok" /\ ~options.dry_run
                  \/ /\ SummaryRose(summary, summary', 0, 0, 0, 1)
                     /\ ~fs[n].meta
               /\ summary'.empty_dirs_removed = summary.empty_dirs_removed
               /\ summary'.cleaned_locations = summary.cleaned_locations
       /\ pc # "start" =>
            /\ summary'.deleted_files >= summary.deleted_files
            /\ summary'.total_size >= summary.total_size
            /\ summary'.skipped_files >= summary.skipped_files
            /\ Len(summary'.errors) >= Len(summary.errors)
            /\ summary'.empty_dirs_removed >= summary.empty_dirs_removed
      ]_vars

\* a call has returned in which a file was deleted, a file was skipped, the
\* removal of a file failed and the metadata of a file could not be read
C21_Witness ==
    /\ pc = "done"
    /\ summary.deleted_files > 0
    /\ summary.skipped_files > 1
    /\ \E i, j \in 1..Len(summary.errors) :
          /\ summary.errors[i].kind = "FileInUse"
          /\ summary.errors[j].kind = "IoError" /\ summary.errors[j].msg = "metadata"

\* every file that was an entry of directory d when the top-level call began
\* has been handed to process_file, or the max_files stop has been taken
FilesHandled(d) ==
    \A n \in Nodes :
        (entry.fs[n].parent = d /\ IsFile(entry.fs, n))
            => (n \in called \/ LimitReached(summary, options))

\* clean_directory_advanced has been called on every subdirectory of d that
\* is not a symbolic link, or the max_files stop has been taken
SubdirsCleaned(d) ==
    \A n \in Nodes :
        (entry.fs[n].parent = d /\ entry.fs[n].kind = "dir")
            => (n \in called \/ LimitReached(summary, options))

\* C22: within a clean_directory_advanced call a subdirectory is entered
\* only after every file entry of the current directory has been processed
\* (or the max_files stop has been taken); the calls on the stack form a
\* chain from directory to subdirectory; and the empty-directory pass of a
\* directory is running only when all its files have been processed and all
\* its subdirectories have been cleaned.
C22_Order ==
    \A i \in 1..Len(stack) :
        stack[i].fn = "clean" =>
            /\ (i < Len(stack) /\ stack[i + 1].fn = "clean") =>
                  /\ stack[i].entries = <<>>
                  /\ stack[i].phase = "scan"
                  /\ fs[stack[i + 1].dir].parent = stack[i].dir
                  /\ FilesHandled(stack[i].dir)
            /\ stack[i].phase = "empty" =>
                  /\ stack[i].entries = <<>> /\ stack[i].dirs = <<>>
                  /\ FilesHandled(stack[i].dir)
                  /\ options.recursive => SubdirsCleaned(stack[i].dir)
                  /\ \A j \in (i + 1)..Len(stack) : stack[j].fn = "rmempty"

\* the empty-directory pass of %TEMP% is running after its file a.tmp was
\* processed and its subdirectories S1 (with TD in it) and S2 were cleaned
C22_Witness ==
    /\ Len(stack) >= 2
    /\ stack[1].fn = "clean" /\ stack[1].dir = UT /\ stack[1].phase = "empty"
    /\ stack[2].fn = "rmempty"
    /\ {F2, S1, TD, S2} \subseteq called
    /\ ~LimitReached(summary, options)

\* the location a directory of the registry belongs to by its own name:
\* %TEMP% is the 'Benutzer Temp' directory, INetCache a 'System Temp' one,
\* the Chrome cache a 'Chrome Cache' one
HomeLocation(d) ==
    CASE d = UT -> "Benutzer Temp"
      [] d = IC -> "System Temp"
      [] d = CC -> "Chrome Cache"

\* file n lies in or below registry directory d and its name matches the
\* protected list of the location of d
ProtectedIn(n, d) ==
    /\ fs[n].kind = "file"
    /\ fs[n].parent = d \/ Under(fs, n, d)
    /\ AnyMatch(fs[n].name, ProtectedFiles(HomeLocation(d)))

\* C23: a file whose name matches the protected list of the location it
\* belongs to is never deleted during a run, also when its directory is
\* listed under a second location name (%TEMP% belongs to 'Benutzer Temp'
\* when TEMP is set).
C23_ProtectedNeverDeleted ==
    [][\A d \in {UT, IC, CC} : \A n \in Nodes :
          (ProtectedIn(n, d) /\ (d = UT => LocationVar(HomeLocation(d)) \in env))
              => fs'[n].kind = "file"]_vars

\* the same while the directory is cleaned under the name of its own
\* location
C23_UnderItsOwnName ==
    [][\A d \in {UT, IC, CC} : \A n \in Nodes :
          (ProtectedIn(n, d) /\ cur.name = HomeLocation(d))
              => fs'[n].kind = "file"]_vars

\* the directories (and links to directories, which path.is_dir() takes for
\* directories) that were there when the call began and are gone now
RemovedDirs ==
    {d \in Nodes : fs0[d].kind \in {"dir", "symlink"} /\ fs[d].kind = "none"}

\* the directories that were empty when the call began
EmptyDirsAtStart == {d \in Nodes : fs0[d].kind = "dir" /\ IsDirectoryEmpty(fs0, d)}

\* in a real run empty_dirs_removed is the number of directories removed
C24_RealRunExact ==
    (pc # "start" /\ ~options.dry_run)
        => summary.empty_dirs_removed = Cardinality(RemovedDirs)

\* C24: empty_dirs_removed counts each directory at most once per run: in a
\* real run it is the number of directories removed, in a dry run it never
\* exceeds the number of empty directories in the tree.
C24_CountedOnce ==
    /\ C24_RealRunExact
    /\ (pc # "start" /\ options.dry_run)
          => summary.empty_dirs_removed <= Cardinality(EmptyDirsAtStart)

RECURSIVE SumOver(_, _, _)
\* the sum of field fld over the entries of map m under the names in S
SumOver(m, S, fld) ==
    IF S = {} THEN 0
    ELSE LET k == CHOOSE x \in S : TRUE
         IN m[k][fld] + SumOver(m, S \ {k}, fld)

\* the entries of the location map add up to the counters of the summary
MapAccountsFor(s) ==
    LET m == s.cleaned_locations
    IN /\ SumOver(m, DOMAIN m, "deleted_files") = s.deleted_files
       /\ SumOver(m, DOMAIN m, "total_size") = s.total_size
       /\ SumOver(m, DOMAIN m, "errors") = Len(s.errors)
       /\ SumOver(m, DOMAIN m, "skipped_files") = s.skipped_files

\* C25: no location name is inserted into the map twice during a call, and
\* when clean_temp_files_with_options returns, the sums over
\* cleaned_locations of deleted_files, total_size, errors and skipped_files
\* are the summary's deleted_files, total_size, number of errors and
\* skipped_files.
C25_MapAccountsForRun ==
    [][/\ (pc # "start" /\ summary'.cleaned_locations # summary.cleaned_locations) =>
            /\ cur.name \notin DOMAIN summary.cleaned_locations
            /\ DOMAIN summary'.cleaned_locations =
                  DOMAIN summary.cleaned_locations \cup {cur.name}
            /\ \A k \in DOMAIN summary.cleaned_locations :
                  summary'.cleaned_locations[k] = summary.cleaned_locations[k]
       /\ pc' = "done" => MapAccountsFor(summary')
      ]_vars

\* a call has returned whose map has three entries and whose summary holds
\* deleted files, skipped files and an error
C25_Witness ==
    /\ pc = "done" /\ result = "Ok"
    /\ Cardinality(DOMAIN summary.cleaned_locations) = 3
    /\ summary.deleted_files > 0 /\ summary.skipped_files > 0
    /\ summary.errors # <<>>

\* the nodes a step of the top-level call on stack[1].dir changes although
\* they are not direct entries of that directory
ChangedBelowSubdir ==
    {n \in Nodes : fs'[n] # fs[n] /\ fs[n].parent # stack[1].dir}

\* with recursive = false no file inside a subdirectory is deleted
C26_NoFileBelowSubdir ==
    [][(~options.recursive /\ stack # <<>>)
          => \A n \in ChangedBelowSubdir : fs[n].kind # "file"]_vars

\* C26: with recursive = false, clean_directory_advanced deletes no file and
\* removes no directory inside a subdirectory of dir, whatever
\* remove_empty_dirs is: only direct entries of dir change.
C26_OnlyDirectEntries ==
    [][(~options.recursive /\ stack # <<>>) => ChangedBelowSubdir = {}]_vars

\* C27: the directory a top-level clean_directory_advanced call is made on
\* is never removed, even when the run leaves it empty: a directory that is
\* removed is another one, an entry of a directory the empty-directory pass
\* is working on below it.
C27_RootNeverRemoved ==
    [][stack # <<>> =>
          LET root == Resolve(fs, stack[1].dir)
          IN /\ fs'[root] = fs[root]
             /\ \A n \in Nodes :
                   (fs[n].kind \in {"dir", "symlink"} /\ fs'[n].kind = "none") =>
                       /\ n # root
                       /\ Top.fn = "rmempty"
                       /\ fs[n].parent = Resolve(fs, Top.dir)
      ]_vars

\* a call has returned that deleted the only file of the Chrome cache
\* directory and left the directory itself in place, empty
C27_Witness ==
    /\ pc = "done" /\ result = "Ok"
    /\ ~options.dry_run /\ options.remove_empty_dirs
    /\ fs0[F8].kind = "file" /\ fs[F8].kind = "none"
    /\ fs[CC].kind = "dir" /\ IsDirectoryEmpty(fs, CC)

\* switching monitoring off clears the status in the same step
C28_ClearedOnSwitchOff ==
    [][(monitoring_active /\ ~monitoring_active') => system_status' = NoStatus]_vars

\* C28: whenever monitoring_active is false, system_status is None, under
\* every interleaving of ToggleMonitoring, UpdateSystemStatus and the
\* SystemStatusUpdated messages delivered later.
C28_NoStatusWhileOff == ~monitoring_active => system_status = NoStatus

====
